---- MODULE Spec2Model ----
(***************************************************************************)
(* Model of the SBAI backend: the BOM <-> drawing reconciler               *)
(* (bom_comparison_service.py), the table-pass post-processing, the        *)
(* per-page VLM pipeline and the merge of the text record into the VLM     *)
(* record (vlm_bom_service.py), the text extraction of a BOM PDF           *)
(* (pipe_bom_service.py), the legend harvest (symbol_db_service.py), the   *)
(* chat over the database (chatbot_service.py, db_service.py) and the      *)
(* background worker of an uploaded session (routers/upload.py).           *)
(*                                                                         *)
(* Python strings are sequences of one-character strings, so that `in`,    *)
(* strip(), upper(), split() and the regular expressions of the source are *)
(* computed character by character.  Quantities are fixed-point numbers    *)
(* in thousandths (Milli): 2 is 2000, 9.5 is 9500.                         *)
(***************************************************************************)
EXTENDS Integers, Sequences, FiniteSets, TLC

VARIABLES
    \* compare_single_page (bom_comparison_service.py)
    page_data,              \* the page record given: bom_table and components
    drawing_groups,         \* key -> summed quantity, a sequence in the order of the dict
    comparison_items,       \* the comparison items appended so far
    matched_drawing_keys,   \* the drawing keys BOM rows consumed
    item_idx,               \* the index of the BOM row the loop is at
    summary,                \* the summary of the page, once computed
    cmp_pc,                 \* "group", "rows", "summary", "done" or "raised"
    \* the table pass of analyze_single_page (vlm_bom_service.py)
    table_data,             \* the parsed response: bom_items and cut_lengths
    raw_idx,                \* the index of the raw item _postprocess_bom_items is at
    cleaned,                \* the rows _postprocess_bom_items has kept so far
    cut_idx,                \* the index of the raw cut _postprocess_cut_lengths is at
    cleaned_cuts,           \* the cuts collected so far
    bom_idx,                \* the index of the cleaned row the second loop is at
    remaining_bom,          \* the rows the second loop has left in the BOM
    result,                 \* what the table pass puts on the page record
    tbl_pc,                 \* "run", "done" or "raised"
    \* process_bom_with_vlm (vlm_bom_service.py)
    total_pages,            \* len(doc)
    text_pages,             \* len(text_extraction_data), 0 when none is given
    page_idx,               \* the page the loop is at, from 0
    table_img,              \* whether render_page_for_vlm gave a table crop
    page_result,            \* the record analyze_single_page is building
    results,                \* the records appended so far
    outcomes,               \* per page, what happened to it (history)
    vlm_log,                \* the VLM calls and the sleeps, in order
    vlm_pc,                 \* "render", "drawing", "table", "finish", "done" or "raised"
    \* upload_file and _process_file (routers/upload.py), the sessions table (db_service.py)
    sessions,               \* per session, the state of its background worker
    db_status,              \* per session, the status column of its row
    _symbol_ref_cache,      \* the module-level cache: 0 for "", else the session it is from
    \* one page through analyze_single_page and _merge_text_and_vlm (vlm_bom_service.py)
    text_data,              \* the text-extraction record of the page
    vlm_data,               \* the record analyze_single_page returned
    merged,                 \* the record _merge_text_and_vlm returned
    merged_again,           \* the record it returned when the pipeline ran a second time
    merged_twice,           \* the record a merge of the text into the merged record returned
    mrg_pc,                 \* "analyze", "merge", "again", "done" or "raised"
    \* extract_symbols_from_legend (symbol_db_service.py)
    vlm_symbols,            \* the list _analyze_legend_with_vlm returns, when it returns
    text_symbols,           \* the rows _extract_text_fallback reads from the text layer
    symbols,                \* the list being cleaned, then the list returned
    sym_idx,                \* the index of the row _validate_and_clean is at
    cleaned_symbols,        \* the rows it has kept so far
    seen,                   \* the description keys it has seen
    leg_source,             \* "vlm" or "text": where the list being cleaned is from
    leg_pc,                 \* "vlm", "clean", "crop", "fallback", "ids", "done"
    \* chat (chatbot_service.py) over the store execute_query reads (db_service.py)
    chat_store,             \* the tables of the database file: per table, its rows
    chat_store0,            \* the tables before the first chat request (history)
    llm_response,           \* the text llm_chat returned for the request
    chat_executed,          \* the statements sqlite has run, in order (history)
    chat_replies,           \* the statement and the reply of every request answered (history)
    chat_pc,                \* "ask", "answer", "done" or "raised"
    \* extract_pipe_bom (pipe_bom_service.py)
    ext_doc,                \* the text of every page of the PDF
    pages_data,             \* the records appended so far
    ext_pc,                 \* "open", "pages", "done" or "raised"
    \* compare_all_pages (bom_comparison_service.py) and the comparison block of _process_file
    vlm_results,            \* the page records process_bom_with_vlm returned
    comparison_results,     \* the comparisons compare_all_pages has appended
    rec_idx,                \* the index of the record the loop of compare_all_pages is at
    failed_pages,           \* the indexes of the records compare_single_page raised on (history)
    rec_pc,                 \* "compare", "attach", "dump", "done"
    \* llm_chat (core/llm_client.py)
    llm_keys,               \* the providers whose API key is configured
    llm_at,                 \* the place in the order of the provider llm_chat has come to
    llm_log,                \* the calls made: provider, outcome, response (history)
    llm_result              \* the value returned, in a list; empty while llm_chat runs

cmpVars == <<page_data, drawing_groups, comparison_items, matched_drawing_keys,
             item_idx, summary, cmp_pc>>

tblVars == <<table_data, raw_idx, cleaned, cut_idx, cleaned_cuts, bom_idx, remaining_bom,
             result, tbl_pc>>

vlmVars == <<total_pages, text_pages, page_idx, table_img, page_result, results, outcomes,
             vlm_log, vlm_pc>>

sesVars == <<sessions, db_status, _symbol_ref_cache>>

mrgVars == <<text_data, vlm_data, merged, merged_again, merged_twice, mrg_pc>>

legVars == <<vlm_symbols, text_symbols, symbols, sym_idx, cleaned_symbols, seen, leg_source,
             leg_pc>>

chtVars == <<chat_store, chat_store0, llm_response, chat_executed, chat_replies, chat_pc>>

extVars == <<ext_doc, pages_data, ext_pc>>

recVars == <<vlm_results, comparison_results, rec_idx, failed_pages, rec_pc>>

llmVars == <<llm_keys, llm_at, llm_log, llm_result>>

vars == <<cmpVars, tblVars, vlmVars, sesVars, mrgVars, legVars, chtVars, extVars, recVars, llmVars>>

notCmpVars == <<tblVars, vlmVars, sesVars, mrgVars, legVars, chtVars, extVars, recVars,
              llmVars>>

notTblVars == <<cmpVars, vlmVars, sesVars, mrgVars, legVars, chtVars, extVars, recVars,
              llmVars>>

notVlmVars == <<cmpVars, tblVars, sesVars, mrgVars, legVars, chtVars, extVars, recVars,
              llmVars>>

notSesVars == <<cmpVars, tblVars, vlmVars, mrgVars, legVars, chtVars, extVars, recVars,
              llmVars>>

notMrgVars == <<cmpVars, tblVars, vlmVars, sesVars, legVars, chtVars, extVars, recVars,
              llmVars>>

notLegVars == <<cmpVars, tblVars, vlmVars, sesVars, mrgVars, chtVars, extVars, recVars,
              llmVars>>

notChtVars == <<cmpVars, tblVars, vlmVars, sesVars, mrgVars, legVars, extVars, recVars,
              llmVars>>

notExtVars == <<cmpVars, tblVars, vlmVars, sesVars, mrgVars, legVars, chtVars, recVars,
              llmVars>>

notRecVars == <<cmpVars, tblVars, vlmVars, sesVars, mrgVars, legVars, chtVars, extVars,
              llmVars>>

notLlmVars == <<cmpVars, tblVars, vlmVars, sesVars, mrgVars, legVars, chtVars, extVars,
              recVars>>

\* ------------------------------------------------------------------ bounds
MaxBom == 2
MaxComp == 2
MaxRaw == 2
MaxCuts == 2
MaxPages == 2
MaxSessions == 2
MaxSymbols == 2
MaxTextSymbols == 2

\* chat requests answered in a run
MaxChats == 2

\* ----------------------------------------------------------------- strings
Milli == 10 * 10 * 10

LowerAlpha == <<"a","b","c","d","e","f","g","h","i","j","k","l","m","n","o","p","q","r","s","t","u","v","w","x","y","z">>
UpperAlpha == <<"A","B","C","D","E","F","G","H","I","J","K","L","M","N","O","P","Q","R","S","T","U","V","W","X","Y","Z">>
DigitChars == <<"0","1","2","3","4","5","6","7","8","9">>

Range(s) == {s[i] : i \in 1..Len(s)}

\* the least member of a set of positions, 0 for the empty set
FirstOf(S) == IF S = {} THEN 0 ELSE CHOOSE m \in S : \A n \in S : m <= n

\* the greatest member of a set of positions, 0 for the empty set
LastOf(S) == IF S = {} THEN 0 ELSE CHOOSE m \in S : \A n \in S : m >= n

IndexOf(c, s) == FirstOf({i \in 1..Len(s) : s[i] = c})

Abs(n) == IF n < 0 THEN -n ELSE n

IsDigit(c) == c \in Range(DigitChars)

IsUpperLetter(c) == c \in Range(UpperAlpha)

IsSpace(c) == c = " "

MapChar(c, from, to, at) == IF at = 0 THEN c ELSE to[at]

UpperChar(c) == MapChar(c, LowerAlpha, UpperAlpha, IndexOf(c, LowerAlpha))

LowerChar(c) == MapChar(c, UpperAlpha, LowerAlpha, IndexOf(c, UpperAlpha))

\* str.upper()
Upper(s) == [i \in 1..Len(s) |-> UpperChar(s[i])]

\* str.lower()
Lower(s) == [i \in 1..Len(s) |-> LowerChar(s[i])]

\* str.strip()
StripTo(s, keep) == IF keep = {} THEN <<>> ELSE SubSeq(s, FirstOf(keep), LastOf(keep))

Strip(s) == StripTo(s, {i \in 1..Len(s) : ~IsSpace(s[i])})

\* Python's `kw in s` on strings
Contains(kw, s) == \E i \in 0..(Len(s) - Len(kw)) : SubSeq(s, i + 1, i + Len(kw)) = kw

\* the decimal value of a string of digits (0 for the empty string)
RECURSIVE DigitsValue(_)
DigitsValue(s) ==
    IF s = <<>> THEN 0
    ELSE 10 * DigitsValue(SubSeq(s, 1, Len(s) - 1)) + (IndexOf(s[Len(s)], DigitChars) - 1)

\* the length of the longest prefix of s, from position p on, whose characters satisfy the test
RECURSIVE RunEnd(_, _, _)
RunEnd(s, p, ok) == IF p <= Len(s) /\ s[p] \in ok THEN RunEnd(s, p + 1, ok) ELSE p - 1


\* the frozen set of sequences without repetition, of length at most n, over a pool
SeqsNoRepeat(pool, n) ==
    UNION {{s \in [1..k -> pool] : \A i, j \in 1..k : i # j => s[i] # s[j]} : k \in 0..n}

\* Python's banker's rounding of the exact quotient a / b (b > 0, a >= 0) to an integer
RoundHalfEven(a, b) ==
    IF 2 * (a % b) < b THEN a \div b
    ELSE IF 2 * (a % b) > b THEN (a \div b) + 1
    ELSE IF (a \div b) % 2 = 0 THEN a \div b ELSE (a \div b) + 1

\* ---------------------------------------------------------------- numbers
\* float(text) for a text of digits and dots (the match of [\d.]+), in thousandths:
\* ok is FALSE where Python raises ValueError ("1.2.3", ".").  Digits beyond the
\* third decimal are cut; the inputs of the model carry at most three.
FloatOfParts(ndots, ip, fp) ==
    IF ndots > 1 \/ (ip = <<>> /\ fp = <<>>)
    THEN [ok |-> FALSE, v |-> 0]
    ELSE [ok |-> TRUE, v |-> DigitsValue(ip) * Milli + DigitsValue(SubSeq(fp \o <<"0","0","0">>, 1, 3))]

FloatAtDot(run, ndots, dot) ==
    IF dot = 0 THEN FloatOfParts(ndots, run, <<>>)
    ELSE FloatOfParts(ndots, SubSeq(run, 1, dot - 1), SubSeq(run, dot + 1, Len(run)))

ParseFloat(run) ==
    FloatAtDot(run, Cardinality({i \in 1..Len(run) : run[i] = "."}), IndexOf(".", run))

NumberChars == Range(DigitChars) \cup {"."}

RunFrom(s, at) == IF at = 0 THEN <<>> ELSE SubSeq(s, at, RunEnd(s, at, NumberChars))

\* re.search(r'([\d.]+)', s): the first maximal run of digits and dots, <<>> when none
FirstNumberRun(s) == RunFrom(s, FirstOf({i \in 1..Len(s) : s[i] \in NumberChars}))

IntOfBody(neg, body) ==
    IF body = <<>> \/ \E i \in 1..Len(body) : ~IsDigit(body[i])
    THEN [ok |-> FALSE, v |-> 0]
    ELSE [ok |-> TRUE, v |-> IF neg THEN -DigitsValue(body) ELSE DigitsValue(body)]

IntOfStripped(t) ==
    IF t # <<>> /\ t[1] \in {"-", "+"} THEN IntOfBody(t[1] = "-", Tail(t)) ELSE IntOfBody(FALSE, t)

\* int(text): surrounding blanks and one sign allowed, then digits only
ParseInt(text) == IntOfStripped(Strip(text))

\* a JSON value that is a string / a number (in thousandths) / null / absent
Str(s) == [t |-> "str", s |-> s, n |-> 0]

Num(n) == [t |-> "num", s |-> <<>>, n |-> n * Milli]

Null == [t |-> "null", s |-> <<>>, n |-> 0]

Missing == [t |-> "missing", s |-> <<>>, n |-> 0]

\* ------------------------------------------------- BOM <-> drawing reconciler
\* BOM letter code -> <<component type, possible subtypes>>
BOM_LETTER_TO_TYPES ==
    <<
      <<<<"A">>, <<"p","i","p","e">>, <<<<"p","i","p","e">>>>>>,
      <<<<"B">>, <<"p","i","p","e">>, <<<<"p","i","p","e">>>>>>,
      <<<<"C">>, <<"f","i","t","t","i","n","g">>, <<<<"t","e","e">>, <<"r","e","d","u","c","i","n","g","_","t","e","e">>, <<"e","q","u","a","l","_","t","e","e">>>>>>,
      <<<<"D">>, <<"f","i","t","t","i","n","g">>, <<<<"r","e","d","u","c","e","r","_","c","o","n">>, <<"r","e","d","u","c","e","r","_","e","c","c">>, <<"r","e","d","u","c","e","r">>>>>>,
      <<<<"E">>, <<"f","i","t","t","i","n","g">>, <<<<"s","o","c","k","o","l","e","t">>, <<"w","e","l","d","o","l","e","t">>>>>>,
      <<<<"F">>, <<"f","l","a","n","g","e">>, <<<<"w","n","_","f","l","a","n","g","e">>>>>>,
      <<<<"G">>, <<"f","l","a","n","g","e">>, <<<<"w","n","_","f","l","a","n","g","e">>>>>>,
      <<<<"H">>, <<"f","l","a","n","g","e">>, <<<<"b","l","i","n","d","_","f","l","a","n","g","e">>, <<"w","n","_","f","l","a","n","g","e">>>>>>,
      <<<<"I">>, <<"f","l","a","n","g","e">>, <<<<"o","r","i","f","i","c","e","_","f","l","a","n","g","e">>>>>>,
      <<<<"J">>, <<"f","i","t","t","i","n","g">>, <<<<"e","l","b","o","w","_","9","0">>, <<"e","l","b","o","w","_","9","0","_","l","r">>, <<"e","l","b","o","w","_","4","5">>>>>>,
      <<<<"K">>, <<"f","i","t","t","i","n","g">>, <<<<"c","a","p">>, <<"c","o","u","p","l","i","n","g">>>>>>,
      <<<<"L">>, <<"f","i","t","t","i","n","g">>, <<<<"e","l","b","o","w","_","9","0">>, <<"e","l","b","o","w","_","9","0","_","l","r">>>>>>,
      <<<<"M">>, <<"f","l","a","n","g","e">>, <<<<"w","n","_","f","l","a","n","g","e">>>>>>,
      <<<<"N">>, <<"f","l","a","n","g","e">>, <<<<"b","l","i","n","d","_","f","l","a","n","g","e">>>>>>
    >>

\* letter codes of rows no drawing symbol stands for
SKIP_LETTER_CODES ==
    {<<"O">>, <<"P">>, <<"Q">>, <<"R">>, <<"S">>, <<"T">>, <<"U">>, <<"V">>, <<"W">>, <<"X">>, <<"Y">>, <<"Z">>}

\* description keyword -> component subtype, in the order of the dict
DESCRIPTION_TO_SUBTYPE ==
    <<
      <<<<"P","I","P","E">>, <<"p","i","p","e">>>>,
      <<<<"E","L","B","O","W"," ","9","0"," ","L","R">>, <<"e","l","b","o","w","_","9","0","_","l","r">>>>,
      <<<<"E","L","B","O","W"," ","9","0">>, <<"e","l","b","o","w","_","9","0">>>>,
      <<<<"E","L","B","O","W"," ","4","5">>, <<"e","l","b","o","w","_","4","5">>>>,
      <<<<"E","Q","U","A","L"," ","T","E","E">>, <<"t","e","e">>>>,
      <<<<"R","E","D","U","C","I","N","G"," ","T","E","E">>, <<"r","e","d","u","c","i","n","g","_","t","e","e">>>>,
      <<<<"T","E","E">>, <<"t","e","e">>>>,
      <<<<"R","E","D","U","C","E","R"," ","C","O","N">>, <<"r","e","d","u","c","e","r","_","c","o","n">>>>,
      <<<<"R","E","D","U","C","E","R"," ","E","C","C">>, <<"r","e","d","u","c","e","r","_","e","c","c">>>>,
      <<<<"R","E","D","U","C","E","R"," ","E","C","C","E","N","T","R","I","C">>, <<"r","e","d","u","c","e","r","_","e","c","c">>>>,
      <<<<"R","E","D","U","C","E","R"," ","C","O","N","C","E","N","T","R","I","C">>, <<"r","e","d","u","c","e","r","_","c","o","n">>>>,
      <<<<"R","E","D","U","C","E","R">>, <<"r","e","d","u","c","e","r","_","c","o","n">>>>,
      <<<<"W","N"," ","F","L","A","N","G","E">>, <<"w","n","_","f","l","a","n","g","e">>>>,
      <<<<"F","L","A","N","G","E"," ","W","N">>, <<"w","n","_","f","l","a","n","g","e">>>>,
      <<<<"B","L","I","N","D"," ","F","L","A","N","G","E">>, <<"b","l","i","n","d","_","f","l","a","n","g","e">>>>,
      <<<<"O","R","I","F","I","C","E"," ","F","L","A","N","G","E">>, <<"o","r","i","f","i","c","e","_","f","l","a","n","g","e">>>>,
      <<<<"S","O","C","K","O","L","E","T">>, <<"s","o","c","k","o","l","e","t">>>>,
      <<<<"W","E","L","D","O","L","E","T">>, <<"w","e","l","d","o","l","e","t">>>>,
      <<<<"G","A","T","E"," ","V","A","L","V","E">>, <<"g","a","t","e">>>>,
      <<<<"G","L","O","B","E"," ","V","A","L","V","E">>, <<"g","l","o","b","e">>>>,
      <<<<"B","A","L","L"," ","V","A","L","V","E">>, <<"b","a","l","l">>>>,
      <<<<"C","H","E","C","K"," ","V","A","L","V","E">>, <<"c","h","e","c","k">>>>,
      <<<<"N","E","E","D","L","E"," ","V","A","L","V","E">>, <<"n","e","e","d","l","e">>>>,
      <<<<"N","O","N"," ","R","E","T","U","R","N">>, <<"n","o","n","_","r","e","t","u","r","n">>>>,
      <<<<"B","U","T","T","E","R","F","L","Y">>, <<"b","u","t","t","e","r","f","l","y">>>>,
      <<<<"C","L","A","M","P">>, <<"c","l","a","m","p">>>>,
      <<<<"S","U","P","P","O","R","T">>, <<"s","u","p","p","o","r","t">>>>,
      <<<<"C","A","P">>, <<"c","a","p">>>>,
      <<<<"C","O","U","P","L","I","N","G">>, <<"c","o","u","p","l","i","n","g">>>>
    >>

\* description keyword -> component type, in the order of the dict
DESCRIPTION_TO_TYPE ==
    <<
      <<<<"P","I","P","E">>, <<"p","i","p","e">>>>,
      <<<<"E","L","B","O","W">>, <<"f","i","t","t","i","n","g">>>>,
      <<<<"T","E","E">>, <<"f","i","t","t","i","n","g">>>>,
      <<<<"R","E","D","U","C","E","R">>, <<"f","i","t","t","i","n","g">>>>,
      <<<<"S","O","C","K","O","L","E","T">>, <<"f","i","t","t","i","n","g">>>>,
      <<<<"W","E","L","D","O","L","E","T">>, <<"f","i","t","t","i","n","g">>>>,
      <<<<"C","A","P">>, <<"f","i","t","t","i","n","g">>>>,
      <<<<"C","O","U","P","L","I","N","G">>, <<"f","i","t","t","i","n","g">>>>,
      <<<<"F","L","A","N","G","E">>, <<"f","l","a","n","g","e">>>>,
      <<<<"V","A","L","V","E">>, <<"v","a","l","v","e">>>>,
      <<<<"G","A","S","K","E","T">>, <<"g","a","s","k","e","t">>>>,
      <<<<"B","O","L","T">>, <<"b","o","l","t">>>>,
      <<<<"N","U","T">>, <<"b","o","l","t">>>>,
      <<<<"S","T","U","D">>, <<"b","o","l","t">>>>,
      <<<<"C","L","A","M","P">>, <<"s","u","p","p","o","r","t">>>>,
      <<<<"S","U","P","P","O","R","T">>, <<"s","u","p","p","o","r","t">>>>,
      <<<<"P","A","I","N","T">>, <<"s","k","i","p">>>>,
      <<<<"G","A","L","V","A","N">>, <<"s","k","i","p">>>>
    >>

\* sorted(pairs, key=len of the keyword, reverse=True): a stable sort, so keywords of
\* the same length keep the order of the dict
SortRank(pairs, i) ==
    Cardinality({j \in 1..Len(pairs) : \/ Len(pairs[j][1]) > Len(pairs[i][1])
                                       \/ /\ Len(pairs[j][1]) = Len(pairs[i][1])
                                          /\ j < i}) + 1

SortedByLenDesc(pairs) ==
    [p \in 1..Len(pairs) |-> pairs[CHOOSE i \in 1..Len(pairs) : SortRank(pairs, i) = p]]

\* sorted(DESCRIPTION_TO_SUBTYPE.keys(), key=len, reverse=True), with the values
SubtypeKeywords == SortedByLenDesc(DESCRIPTION_TO_SUBTYPE)

\* sorted(DESCRIPTION_TO_TYPE.keys(), key=len, reverse=True), with the values
TypeKeywords == SortedByLenDesc(DESCRIPTION_TO_TYPE)

ValueAt(pairs, at) == IF at = 0 THEN <<>> ELSE pairs[at][2]

\* the value of the first keyword, in the given order, that the description contains
FirstKeyword(pairs, desc) ==
    ValueAt(pairs, FirstOf({i \in 1..Len(pairs) : Contains(pairs[i][1], desc)}))

SkipKeywords == <<<<"G","A","S","K","E","T">>, <<"B","O","L","T">>, <<"N","U","T">>, <<"S","T","U","D">>, <<"P","A","I","N","T">>, <<"G","A","L","V","A","N">>>>

RowAt(at) == IF at = 0 THEN <<>> ELSE BOM_LETTER_TO_TYPES[at]

\* BOM_LETTER_TO_TYPES[letter], <<>> when the letter is no key
LetterRow(letter) ==
    RowAt(FirstOf({i \in 1..Len(BOM_LETTER_TO_TYPES) : BOM_LETTER_TO_TYPES[i][1] = letter}))

SkipInfo == [comp_type |-> <<>>, subtype |-> <<>>, should_skip |-> TRUE]

\* the letter-code fallbacks and the last skip test
InfoWithFallback(subtype, comp_type) ==
    IF comp_type \in {<<"s","k","i","p">>, <<"g","a","s","k","e","t">>, <<"b","o","l","t">>} THEN SkipInfo
    ELSE [comp_type |-> comp_type, subtype |-> subtype, should_skip |-> FALSE]

InfoFromKeywords(subtype0, type0, row) ==
    IF subtype0 = <<>> /\ row # <<>>
    THEN InfoWithFallback(IF row[3] # <<>> THEN row[3][1] ELSE <<>>, row[2])
    ELSE IF type0 = <<>> /\ row # <<>>
    THEN InfoWithFallback(subtype0, row[2])
    ELSE InfoWithFallback(subtype0, type0)

\* whether the description holds one of the six skip keywords
SkipByDescription(desc) == \E i \in 1..Len(SkipKeywords) : Contains(SkipKeywords[i], desc)

ComponentInfo(letter, desc) ==
    IF letter \in SKIP_LETTER_CODES THEN SkipInfo
    ELSE IF SkipByDescription(desc) THEN SkipInfo
    ELSE InfoFromKeywords(FirstKeyword(SubtypeKeywords, desc),
                          FirstKeyword(TypeKeywords, desc), LetterRow(letter))

\* (component type, subtype, should_skip) of a BOM row
_get_component_info_from_bom(item) ==
    ComponentInfo(Upper(Strip(item.letter_code)), Upper(Strip(item.description)))

QuantityOfRun(run) == IF run = <<>> THEN [ok |-> TRUE, v |-> 0] ELSE ParseFloat(run)

\* the BOM quantity as a number: [ok, v], ok FALSE where float() raises ValueError
_parse_bom_quantity(qty) ==
    IF qty.t = "num" THEN [ok |-> TRUE, v |-> qty.n]
    ELSE IF qty.t # "str" \/ qty.s = <<>> THEN [ok |-> TRUE, v |-> 0]
    ELSE QuantityOfRun(FirstNumberRun(Strip(qty.s)))

\* _is_pipe_length_qty without the upper(): looks for a lower-case m
_is_pipe_length_qty_NoUpper(qty) == qty.t = "str" /\ Contains(<<"m">>, qty.s)

\* whether the quantity is a length of pipe in metres
_is_pipe_length_qty(qty) == qty.t = "str" /\ Contains(<<"M">>, Upper(qty.s))

\* the notes of the comparison items (Korean in the source)
NoteSkipped == "not a comparison target (gasket/bolt/paint ...)"

NoteUnmapped == "cannot be mapped"

NoteLengthUnit == "pipe length (M) - quantity cannot be compared"

NoteDrawingOnly == "only in the drawing"

\* a comparison item; drawing_quantity is <<>> for the empty string and <<q>> for a
\* number.  bom_quantity and bom_size, which no verdict reads, are left out.
ComparisonItem(letter, desc, component, dqty, status, diff, notes) ==
    [bom_letter |-> letter, bom_description |-> desc, drawing_component |-> component,
     drawing_quantity |-> dqty, match_status |-> status, quantity_diff |-> diff,
     notes |-> notes]

\* the key "<type>:<subtype>"
MakeKey(type, subtype) == type \o <<":">> \o subtype

\* the key of a drawing component, lower-cased
DrawingKey(comp) == MakeKey(Lower(comp.type), Lower(comp.subtype))

SplitAt(dk, at) ==
    IF at = 0 THEN [dt |-> dk, ds |-> <<>>]
    ELSE [dt |-> SubSeq(dk, 1, at - 1), ds |-> SubSeq(dk, at + 1, Len(dk))]

\* dk.split(":", 1) if ":" in dk else (dk, "")
SplitKey(dk) == SplitAt(dk, IndexOf(":", dk))

IntOrOne(parsed) == [ok |-> TRUE, v |-> IF parsed.ok THEN parsed.v * Milli ELSE Milli]

\* the quantity a component adds to its group: 1 when absent, int(text) or 1 for a
\* string; ok is FALSE where `+=` raises TypeError (a JSON null)
ComponentQuantity(comp) ==
    CASE comp.quantity.t = "missing" -> [ok |-> TRUE, v |-> Milli]
      [] comp.quantity.t = "num"     -> [ok |-> TRUE, v |-> comp.quantity.n]
      [] comp.quantity.t = "str"     -> IntOrOne(ParseInt(comp.quantity.s))
      [] OTHER                       -> [ok |-> FALSE, v |-> 0]

KeyIndex(groups, key) == FirstOf({i \in 1..Len(groups) : groups[i].key = key})

AddToGroup(groups, key, q, at) ==
    IF at = 0 THEN Append(groups, [key |-> key, quantity |-> q])
    ELSE [groups EXCEPT ![at].quantity = @ + q]

AddComponent(groups, key, q) == AddToGroup(groups, key, q, KeyIndex(groups, key))

\* step 1: the drawing components grouped by key, quantities summed, in the order
\* the keys were first seen (the order of the dict)
RECURSIVE GroupComponents(_, _)
GroupComponents(comps, groups) ==
    IF comps = <<>> THEN groups
    ELSE GroupComponents(Tail(comps),
             AddComponent(groups, DrawingKey(Head(comps)), ComponentQuantity(Head(comps)).v))

GroupingRaises(comps) == \E i \in 1..Len(comps) : ~ComponentQuantity(comps[i]).ok

\* FuzzyHit with only the subtype of the key looked for in the subtype of the row
FuzzyHit_KeyInRow(k, comp_type, subtype) ==
    /\ k.dt = comp_type
    /\ subtype # <<>>
    /\ k.ds # <<>>
    /\ Contains(k.ds, subtype)

FuzzyHit(k, comp_type, subtype) ==
    /\ k.dt = comp_type
    /\ subtype # <<>>
    /\ k.ds # <<>>
    /\ (Contains(subtype, k.ds) \/ Contains(k.ds, subtype))

\* the relaxed pass: the first key of the same type whose subtype contains, or is
\* contained in, the subtype of the row
FuzzyIndex(groups, comp_type, subtype) ==
    FirstOf({i \in 1..Len(groups) : FuzzyHit(SplitKey(groups[i].key), comp_type, subtype)})

ExactOrFuzzy(exact, groups, comp_type, subtype) ==
    IF exact # 0 THEN exact ELSE FuzzyIndex(groups, comp_type, subtype)

\* the index in drawing_groups of the key a row matches, 0 when none
MatchIndex(groups, comp_type, subtype) ==
    ExactOrFuzzy(KeyIndex(groups, MakeKey(comp_type, subtype)), groups, comp_type, subtype)

MatchTolerance == 10

\* QuantityVerdict with the status of an unmatched row misspelt
QuantityVerdict_Misspelt(at, bom_qty, drawing_qty) ==
    IF at = 0 THEN [match_status |-> "BOM ONLY", diff |-> 0]
    ELSE IF Abs(bom_qty - drawing_qty) < MatchTolerance THEN [match_status |-> "MATCH", diff |-> 0]
    ELSE [match_status |-> "MISMATCH", diff |-> drawing_qty - bom_qty]

\* QuantityVerdict with the difference taken as BOM minus drawing
QuantityVerdict_BomMinusDrawing(at, bom_qty, drawing_qty) ==
    IF at = 0 THEN [match_status |-> "BOM_ONLY", diff |-> 0]
    ELSE IF Abs(bom_qty - drawing_qty) < MatchTolerance THEN [match_status |-> "MATCH", diff |-> 0]
    ELSE [match_status |-> "MISMATCH", diff |-> bom_qty - drawing_qty]

\* QuantityVerdict with an unmatched row left out of the comparison
QuantityVerdict_UnmatchedNA(at, bom_qty, drawing_qty) ==
    IF at = 0 THEN [match_status |-> "N/A", diff |-> 0]
    ELSE IF Abs(bom_qty - drawing_qty) < MatchTolerance THEN [match_status |-> "MATCH", diff |-> 0]
    ELSE [match_status |-> "MISMATCH", diff |-> drawing_qty - bom_qty]

\* the verdict of a row with quantity bom_qty against the matched key (at = 0: none)
QuantityVerdict(at, bom_qty, drawing_qty) ==
    IF at = 0 THEN [match_status |-> "BOM_ONLY", diff |-> 0]
    ELSE IF Abs(bom_qty - drawing_qty) < MatchTolerance THEN [match_status |-> "MATCH", diff |-> 0]
    ELSE [match_status |-> "MISMATCH", diff |-> drawing_qty - bom_qty]

RowResult(raised, matched, ci) == [raised |-> raised, matched |-> matched, ci |-> ci]

ComparedItem(letter, desc, info, at, dqty, v) ==
    ComparisonItem(letter, desc,
                   IF info.comp_type # <<>> THEN MakeKey(info.comp_type, info.subtype) ELSE <<>>,
                   IF at = 0 THEN <<>> ELSE <<dqty>>,
                   v.match_status, v.diff, "")

MatchedRow(letter, desc, groups, info, qty, at, dqty) ==
    RowResult(FALSE, IF at = 0 THEN {} ELSE {groups[at].key},
              ComparedItem(letter, desc, info, at, dqty, QuantityVerdict(at, qty, dqty)))

CompareQuantity(letter, desc, groups, info, qty, at) ==
    IF ~qty.ok
    THEN RowResult(TRUE, {}, ComparisonItem(letter, desc, <<>>, <<>>, "", 0, ""))
    ELSE MatchedRow(letter, desc, groups, info, qty.v, at,
                    IF at = 0 THEN 0 ELSE groups[at].quantity)

CompareMapped(item, letter, desc, groups, info) ==
    IF info.should_skip
    THEN RowResult(FALSE, {}, ComparisonItem(letter, desc, <<>>, <<>>, "N/A", 0, NoteSkipped))
    ELSE IF info.comp_type = <<>> /\ info.subtype = <<>>
    THEN RowResult(FALSE, {}, ComparisonItem(letter, desc, <<>>, <<>>, "N/A", 0, NoteUnmapped))
    ELSE IF _is_pipe_length_qty(item.quantity)
    THEN RowResult(FALSE, {},
                   ComparisonItem(letter, desc, MakeKey(info.comp_type, info.subtype), <<>>,
                                  "N/A", 0, NoteLengthUnit))
    ELSE CompareQuantity(letter, desc, groups, info, _parse_bom_quantity(item.quantity),
                         MatchIndex(groups, info.comp_type, info.subtype))

\* step 2, one BOM row: the comparison item it appends and the drawing keys it
\* consumes; raised where _parse_bom_quantity raises
CompareBomItem(item, groups) ==
    CompareMapped(item, Strip(item.letter_code), Strip(item.description), groups,
                  _get_component_info_from_bom(item))

\* DrawingOnlyItem with only the support keys left out
DrawingOnlyItem_InstrumentKept(g, matched, k) ==
    IF g.key \in matched \/ k.dt \in {<<"s","u","p","p","o","r","t">>}
    THEN <<>>
    ELSE <<ComparisonItem(<<>>, <<>>, g.key, <<g.quantity>>, "DRAWING_ONLY", g.quantity,
                          NoteDrawingOnly)>>

DrawingOnlyItem(g, matched, k) ==
    IF g.key \in matched \/ k.dt \in {<<"s","u","p","p","o","r","t">>, <<"i","n","s","t","r","u","m","e","n","t">>}
    THEN <<>>
    ELSE <<ComparisonItem(<<>>, <<>>, g.key, <<g.quantity>>, "DRAWING_ONLY", g.quantity,
                          NoteDrawingOnly)>>

\* step 3: one DRAWING_ONLY item for every key no row consumed, support and
\* instrument keys left out, in the order of the dict
RECURSIVE DrawingOnlyItems(_, _)
DrawingOnlyItems(groups, matched) ==
    IF groups = <<>> THEN <<>>
    ELSE DrawingOnlyItem(Head(groups), matched, SplitKey(Head(groups).key))
             \o DrawingOnlyItems(Tail(groups), matched)

CountStatus(items, status) == Cardinality({i \in 1..Len(items) : items[i].match_status = status})

\* MatchRate over all BOM-side and drawing-side items but one: an off-by-one divisor
MatchRate_OffByOne(matched, comparable) ==
    RoundHalfEven(matched * 100 * 10, IF comparable > 2 THEN comparable - 1 ELSE 1)

\* round(matched / max(1, comparable) * 100, 1), in tenths of a percent
MatchRate(matched, comparable) ==
    RoundHalfEven(matched * 100 * 10, IF comparable > 1 THEN comparable ELSE 1)

SummaryOf(total, matched, mismatched, bom_only, drawing_only, na_count, comparable) ==
    [total_bom_items |-> total, comparable_items |-> comparable,
     matched |-> matched, mismatched |-> mismatched, bom_only |-> bom_only,
     drawing_only |-> drawing_only, na_items |-> na_count,
     match_rate |-> MatchRate(matched, comparable)]

Comparable(matched, mismatched, bom_only, drawing_only) ==
    matched + mismatched + bom_only + drawing_only

SummaryOfCounts(total, matched, mismatched, bom_only, drawing_only, na_count) ==
    SummaryOf(total, matched, mismatched, bom_only, drawing_only, na_count,
              Comparable(matched, mismatched, bom_only, drawing_only))

\* step 4: the summary of a page
Summary(bom_items, items) ==
    SummaryOfCounts(Len(bom_items), CountStatus(items, "MATCH"), CountStatus(items, "MISMATCH"),
                    CountStatus(items, "BOM_ONLY"), CountStatus(items, "DRAWING_ONLY"),
                    CountStatus(items, "N/A"))

\* ---------------------------------------------- compare_single_page, stepwise
BomItem(letter, desc, qty) == [letter_code |-> letter, description |-> desc, quantity |-> qty]

Component(type, subtype, qty) == [type |-> type, subtype |-> subtype, quantity |-> qty]

\* the BOM rows the pages are drawn from
BomPool ==
    { BomItem(<<"A">>, <<"P","I","P","E"," ","S","M","L","S"," ","A","S","M","E"," ","B","3","6",".","1","9","M">>, Str(<<"9",".","5"," ","M">>)),
      BomItem(<<"J">>, <<"E","L","B","O","W"," ","9","0"," ","L","R">>, Str(<<"4">>)),
      BomItem(<<"J">>, <<"E","L","B","O","W"," ","9","0"," ","L","R">>, Str(<<"5">>)),
      BomItem(<<"F">>, <<"W","N"," ","F","L","A","N","G","E">>, Str(<<"2">>)),
      BomItem(<<"P">>, <<"S","P","I","R","A","L"," ","W","O","U","N","D"," ","G","A","S","K","E","T">>, Str(<<"8">>)),
      BomItem(<<>>, <<"S","T","R","A","I","N","E","R">>, Str(<<"1">>)),
      BomItem(<<" ","l"," ">>, <<>>, Str(<<"1">>)) }

\* the drawing components the pages are drawn from
ComponentPool ==
    { Component(<<"f","i","t","t","i","n","g">>, <<"e","l","b","o","w","_","9","0","_","l","r">>, Num(4)),
      Component(<<"f","l","a","n","g","e">>, <<"w","n","_","f","l","a","n","g","e">>, Num(3)),
      Component(<<"f","i","t","t","i","n","g">>, <<"t","e","e">>, Num(3)),
      Component(<<"F","i","t","t","i","n","g">>, <<"E","l","b","o","w","_","9","0","_","L","R">>, Str(<<"1">>)),
      Component(<<"p","i","p","e">>, <<"p","i","p","e">>, Missing),
      Component(<<"s","u","p","p","o","r","t">>, <<"c","l","a","m","p">>, Num(2)),
      Component(<<"i","n","s","t","r","u","m","e","n","t">>, <<>>, Str(<<"t","w","o">>)),
      Component(<<"v","a","l","v","e">>, <<"g","a","t","e">>, Null) }

NoSummary ==
    [total_bom_items |-> 0, comparable_items |-> 0, matched |-> 0, mismatched |-> 0,
     bom_only |-> 0, drawing_only |-> 0, na_items |-> 0, match_rate |-> 0]

\* the reconciler, not running
CmpIdle ==
    /\ page_data = [bom_table |-> <<>>, components |-> <<>>]
    /\ drawing_groups = <<>>
    /\ comparison_items = <<>>
    /\ matched_drawing_keys = {}
    /\ item_idx = 1
    /\ summary = NoSummary
    /\ cmp_pc = "idle"

CmpStart ==
    /\ page_data \in {[bom_table |-> b, components |-> c] :
                         b \in SeqsNoRepeat(BomPool, MaxBom),
                         c \in SeqsNoRepeat(ComponentPool, MaxComp)}
    /\ drawing_groups = <<>>
    /\ comparison_items = <<>>
    /\ matched_drawing_keys = {}
    /\ item_idx = 1
    /\ summary = NoSummary
    /\ cmp_pc = "group"

\* the table pass, not running
NoResult == [has_tables |-> FALSE, bom_table |-> <<>>, cut_lengths |-> <<>>,
             table_analysis_ok |-> "unset"]

TblIdle ==
    /\ table_data = [bom_items |-> <<>>, cut_lengths |-> <<>>]
    /\ raw_idx = 1
    /\ cleaned = <<>>
    /\ cut_idx = 1
    /\ cleaned_cuts = <<>>
    /\ bom_idx = 1
    /\ remaining_bom = <<>>
    /\ result = NoResult
    /\ tbl_pc = "idle"

\* the page record analyze_single_page starts from: {"page": page_num, ...}
NewPageResult(page_num) ==
    [page |-> page_num, drawing_analysis_ok |-> "unset", drawing_error |-> FALSE,
     table_analysis_ok |-> "unset", has_bom_table |-> FALSE, error |-> FALSE,
     merged |-> FALSE]

NoOutcome == [render |-> "pending", drawing |-> "pending", table |-> "pending",
              analyze |-> "pending"]

\* the VLM pipeline, not running
VlmIdle ==
    /\ total_pages = 0
    /\ text_pages = 0
    /\ page_idx = 0
    /\ table_img = FALSE
    /\ page_result = NewPageResult(0)
    /\ results = <<>>
    /\ outcomes = <<>>
    /\ vlm_log = <<>>
    /\ vlm_pc = "idle"

SessionIds == 1..MaxSessions

\* a worker that has not been started
NoWorker == [pc |-> "new", kind |-> "none", steps |-> <<>>, at |-> 1, exc_len |-> 0,
             symbol_ref |-> 0, write_failed |-> FALSE, stages |-> <<>>]

NoRow == [status |-> "none", msg_len |-> 0]

\* no session uploaded
SesIdle ==
    /\ sessions = [s \in SessionIds |-> NoWorker]
    /\ db_status = [s \in SessionIds |-> NoRow]
    /\ _symbol_ref_cache = 0

\* a Python dict is a function whose domain is the set of its keys
EmptyDict == <<>>

\* the merge of one page, not running
MrgIdle ==
    /\ text_data = EmptyDict
    /\ vlm_data = EmptyDict
    /\ merged = EmptyDict
    /\ merged_again = EmptyDict
    /\ merged_twice = EmptyDict
    /\ mrg_pc = "idle"

\* the legend harvest, not running
LegIdle ==
    /\ vlm_symbols = <<>>
    /\ text_symbols = <<>>
    /\ symbols = <<>>
    /\ sym_idx = 1
    /\ cleaned_symbols = <<>>
    /\ seen = {}
    /\ leg_source = "none"
    /\ leg_pc = "idle"

ChtIdle ==
    /\ chat_store = <<>>
    /\ chat_store0 = <<>>
    /\ llm_response = <<>>
    /\ chat_executed = <<>>
    /\ chat_replies = <<>>
    /\ chat_pc = "idle"

ExtIdle ==
    /\ ext_doc = <<>>
    /\ pages_data = <<>>
    /\ ext_pc = "idle"

RecIdle ==
    /\ vlm_results = <<>>
    /\ comparison_results = <<>>
    /\ rec_idx = 1
    /\ failed_pages = {}
    /\ rec_pc = "idle"

LlmIdle ==
    /\ llm_keys = {}
    /\ llm_at = 1
    /\ llm_log = <<>>
    /\ llm_result = <<>>

\* every part of the model but one, not running
IdleBut(part) ==
    /\ IF part = "cmp" THEN TRUE ELSE CmpIdle
    /\ IF part = "tbl" THEN TRUE ELSE TblIdle
    /\ IF part = "vlm" THEN TRUE ELSE VlmIdle
    /\ IF part = "ses" THEN TRUE ELSE SesIdle
    /\ IF part = "mrg" THEN TRUE ELSE MrgIdle
    /\ IF part = "leg" THEN TRUE ELSE LegIdle
    /\ IF part = "cht" THEN TRUE ELSE ChtIdle
    /\ IF part = "ext" THEN TRUE ELSE ExtIdle
    /\ IF part = "rec" THEN TRUE ELSE RecIdle
    /\ IF part = "llm" THEN TRUE ELSE LlmIdle

CmpInit == CmpStart /\ IdleBut("cmp")

\* step 1 runs to its end
CmpGroupComponents ==
    /\ cmp_pc = "group"
    /\ ~GroupingRaises(page_data.components)
    /\ drawing_groups' = GroupComponents(page_data.components, <<>>)
    /\ cmp_pc' = "rows"
    /\ UNCHANGED <<page_data, comparison_items, matched_drawing_keys, item_idx, summary>>
    /\ UNCHANGED notCmpVars

\* step 1 raises TypeError on a null quantity: compare_single_page returns nothing
CmpGroupRaises ==
    /\ cmp_pc = "group"
    /\ GroupingRaises(page_data.components)
    /\ cmp_pc' = "raised"
    /\ UNCHANGED <<page_data, drawing_groups, comparison_items, matched_drawing_keys,
                   item_idx, summary>>
    /\ UNCHANGED notCmpVars

AppendRow(r) ==
    IF r.raised
    THEN /\ cmp_pc' = "raised"
         /\ UNCHANGED <<comparison_items, matched_drawing_keys, item_idx>>
    ELSE /\ comparison_items' = Append(comparison_items, r.ci)
         /\ matched_drawing_keys' = matched_drawing_keys \cup r.matched
         /\ item_idx' = item_idx + 1
         /\ UNCHANGED cmp_pc

\* the groups whose key no row has consumed
Unconsumed(groups, matched) == SelectSeq(groups, LAMBDA g : g.key \notin matched)

\* CmpBomItem with a consumed key taken out of the reach of the later rows
CmpBomItem_ConsumedGone ==
    /\ cmp_pc = "rows"
    /\ item_idx <= Len(page_data.bom_table)
    /\ AppendRow(CompareBomItem(page_data.bom_table[item_idx],
                                Unconsumed(drawing_groups, matched_drawing_keys)))
    /\ UNCHANGED <<page_data, drawing_groups, summary>>
    /\ UNCHANGED notCmpVars

\* step 2, one iteration of `for item in bom_items`
CmpBomItem ==
    /\ cmp_pc = "rows"
    /\ item_idx <= Len(page_data.bom_table)
    /\ AppendRow(CompareBomItem(page_data.bom_table[item_idx], drawing_groups))
    /\ UNCHANGED <<page_data, drawing_groups, summary>>
    /\ UNCHANGED notCmpVars

\* step 3, after the last BOM row
CmpDrawingOnly ==
    /\ cmp_pc = "rows"
    /\ item_idx > Len(page_data.bom_table)
    /\ comparison_items' =
           comparison_items \o DrawingOnlyItems(drawing_groups, matched_drawing_keys)
    /\ cmp_pc' = "summary"
    /\ UNCHANGED <<page_data, drawing_groups, matched_drawing_keys, item_idx, summary>>
    /\ UNCHANGED notCmpVars

\* step 4 and the return
CmpSummary ==
    /\ cmp_pc = "summary"
    /\ summary' = Summary(page_data.bom_table, comparison_items)
    /\ cmp_pc' = "done"
    /\ UNCHANGED <<page_data, drawing_groups, comparison_items, matched_drawing_keys,
                   item_idx>>
    /\ UNCHANGED notCmpVars

CmpNext ==
    \/ CmpGroupComponents
    \/ CmpGroupRaises
    \/ CmpBomItem
    \/ CmpDrawingOnly
    \/ CmpSummary

SpecCompare == CmpInit /\ [][CmpNext]_vars


\* ------------------------------------------------ properties of the reconciler
\* the BOM rows the loop has been through: row i gave comparison item i
RowsDone == 1..(item_idx - 1)

Finished == cmp_pc \in {"summary", "done"}

\* the taxonomy of every row of the pool, computed once
InfoOfRow == [r \in BomPool |-> _get_component_info_from_bom(r)]

RowInfo(i) == InfoOfRow[page_data.bom_table[i]]

RowQuantity(i) == page_data.bom_table[i].quantity

RowMatch(i) == MatchIndex(drawing_groups, RowInfo(i).comp_type, RowInfo(i).subtype)

\* the quantity of row i is a text with the letter M in it, in either case
IsLengthRow(i) ==
    /\ RowQuantity(i).t = "str"
    /\ \E k \in 1..Len(RowQuantity(i).s) : RowQuantity(i).s[k] \in {"M", "m"}

Unmappable(info) == ~info.should_skip /\ info.comp_type = <<>> /\ info.subtype = <<>>

\* what the verdict rules say of a row whose quantity is bom and whose matched key,
\* if any (at # 0), has the quantity drawing
VerdictAsClaimed(ci, at, bom, drawing) ==
    /\ (at # 0 /\ Abs(bom - drawing) < 10)
           => (ci.match_status = "MATCH" /\ ci.quantity_diff = 0)
    /\ (at # 0 /\ Abs(bom - drawing) >= 10)
           => (ci.match_status = "MISMATCH" /\ ci.quantity_diff = drawing - bom)
    /\ at = 0 => ci.match_status = "BOM_ONLY"

RowVerdictAsClaimed(i, at) ==
    VerdictAsClaimed(comparison_items[i], at, _parse_bom_quantity(RowQuantity(i)).v,
                     IF at = 0 THEN 0 ELSE drawing_groups[at].quantity)

\* C3: once compare_single_page has returned, matched + mismatched + bom_only +
\* drawing_only + na_items is the number of comparison items, and comparable_items is
\* matched + mismatched + bom_only + drawing_only.
C3_SummaryCountsAddUp ==
    cmp_pc = "done" =>
        /\ summary.matched + summary.mismatched + summary.bom_only
               + summary.drawing_only + summary.na_items = Len(comparison_items)
        /\ summary.comparable_items =
               summary.matched + summary.mismatched + summary.bom_only + summary.drawing_only

\* a returned page with a match, a row left out and an orphan drawing key
C3_Witness ==
    /\ cmp_pc = "done"
    /\ summary.matched >= 1
    /\ summary.na_items >= 1
    /\ summary.drawing_only >= 1

LengthVerdict(i) ==
    /\ comparison_items[i].match_status = "N/A"
    /\ comparison_items[i].notes = NoteLengthUnit
    /\ comparison_items[i].drawing_quantity = <<>>
    /\ comparison_items[i].quantity_diff = 0

\* the comparison items, other than item i, about the component key of row i
OtherItemsOfKey(i) ==
    {j \in 1..Len(comparison_items) :
        j # i /\ comparison_items[j].drawing_component = comparison_items[i].drawing_component}

SkippedRows ==
    {r \in BomPool : \/ Upper(Strip(r.letter_code)) \in SKIP_LETTER_CODES
                     \/ SkipByDescription(Upper(Strip(r.description)))}

SkippedByTaxonomy(item) == item \in SkippedRows

KeyOfComponent == [c \in ComponentPool |-> DrawingKey(c)]

TypeOfComponent == [c \in ComponentPool |-> Lower(c.type)]

QuantityOfComponent == [c \in ComponentPool |-> ComponentQuantity(c).v]

\* the summed quantity of the drawing components of a key
RECURSIVE SumOfKey(_, _)
SumOfKey(comps, key) ==
    IF comps = <<>> THEN 0
    ELSE (IF KeyOfComponent[Head(comps)] = key THEN QuantityOfComponent[Head(comps)] ELSE 0)
             + SumOfKey(Tail(comps), key)

\* the keys that call for a DRAWING_ONLY item
OrphanKeys ==
    {KeyOfComponent[page_data.components[c]] : c \in
        {c \in 1..Len(page_data.components) :
            /\ KeyOfComponent[page_data.components[c]] \notin matched_drawing_keys
            /\ TypeOfComponent[page_data.components[c]] \notin {<<"s","u","p","p","o","r","t">>, <<"i","n","s","t","r","u","m","e","n","t">>}}}

DrawingOnlyAt == {j \in 1..Len(comparison_items) : comparison_items[j].match_status = "DRAWING_ONLY"}

\* C7: after the BOM rows of a page, the DRAWING_ONLY items are one per aggregated
\* drawing key that no BOM row consumed and whose type is neither support nor
\* instrument, each with the key and its summed quantity; consumed keys and
\* support/instrument keys give none.
C7_DrawingOnlyItems ==
    Finished =>
        /\ \A k \in OrphanKeys :
               Cardinality({j \in DrawingOnlyAt :
                               /\ comparison_items[j].drawing_component = k
                               /\ comparison_items[j].drawing_quantity =
                                      <<SumOfKey(page_data.components, k)>>}) = 1
        /\ \A j \in DrawingOnlyAt : comparison_items[j].drawing_component \in OrphanKeys
        /\ Cardinality(DrawingOnlyAt) = Cardinality(OrphanKeys)

\* no BOM table and 3 tees: the one item DRAWING_ONLY, fitting:tee, quantity 3
C7_Witness ==
    /\ cmp_pc = "done"
    /\ page_data.bom_table = <<>>
    /\ page_data.components = <<Component(<<"f","i","t","t","i","n","g">>, <<"t","e","e">>, Num(3))>>
    /\ Len(comparison_items) = 1
    /\ comparison_items[1].match_status = "DRAWING_ONLY"
    /\ comparison_items[1].drawing_component = <<"f","i","t","t","i","n","g",":","t","e","e">>
    /\ comparison_items[1].drawing_quantity = <<3 * Milli>>

\* C8 as stated: the match-rate is matched / comparable rounded to one decimal (in
\* tenths: 10 * matched / comparable rounded to an integer), 0 when comparable is 0.
C8_AsStated ==
    cmp_pc = "done" =>
        /\ summary.comparable_items =
               CountStatus(comparison_items, "MATCH") + CountStatus(comparison_items, "MISMATCH")
                   + CountStatus(comparison_items, "BOM_ONLY")
                   + CountStatus(comparison_items, "DRAWING_ONLY")
        /\ summary.match_rate =
               IF summary.comparable_items = 0 THEN 0
               ELSE RoundHalfEven(10 * summary.matched, summary.comparable_items)

\* C8, amended: the match-rate is the percentage 100 * matched / comparable rounded
\* to one decimal (in tenths of a percent: 1000 * matched / comparable rounded to an
\* integer), 0 when comparable is 0, with comparable = MATCH + MISMATCH + BOM_ONLY +
\* DRAWING_ONLY.
C8_MatchRatePercent ==
    cmp_pc = "done" =>
        /\ summary.comparable_items =
               CountStatus(comparison_items, "MATCH") + CountStatus(comparison_items, "MISMATCH")
                   + CountStatus(comparison_items, "BOM_ONLY")
                   + CountStatus(comparison_items, "DRAWING_ONLY")
        /\ summary.match_rate =
               IF summary.comparable_items = 0 THEN 0
               ELSE RoundHalfEven(1000 * summary.matched, summary.comparable_items)

\* one match among three comparable items: 33.3 percent
C8_Witness ==
    /\ cmp_pc = "done"
    /\ summary.matched = 1
    /\ summary.comparable_items = 3
    /\ summary.match_rate = 333

\* row i is compared with the drawing: not skipped, mapped, no metre quantity
ComparableRow(i) ==
    /\ ~RowInfo(i).should_skip
    /\ ~Unmappable(RowInfo(i))
    /\ ~IsLengthRow(i)
    /\ _parse_bom_quantity(RowQuantity(i)).ok

ExactKey(i) == MakeKey(RowInfo(i).comp_type, RowInfo(i).subtype)

\* both subtypes are non-empty and one contains the other
SubtypesRelated(a, b) == a # <<>> /\ b # <<>> /\ (Contains(a, b) \/ Contains(b, a))

\* the positions in the drawing map of the keys the relaxed pass may match for row i
RelaxedCandidates(i) ==
    {g \in 1..Len(drawing_groups) :
        /\ SplitKey(drawing_groups[g].key).dt = RowInfo(i).comp_type
        /\ SubtypesRelated(RowInfo(i).subtype, SplitKey(drawing_groups[g].key).ds)}

\* the iteration of row i consumed the key at position g and took its quantity
ConsumedAt(i, g) ==
    /\ matched_drawing_keys' = matched_drawing_keys \cup {drawing_groups[g].key}
    /\ comparison_items'[i].drawing_quantity = <<drawing_groups[g].quantity>>

\* C25: a comparable BOM row is looked up by its exact key type:subtype; only when
\* that key is absent is one relaxed pass made, which matches only a key of the
\* same type whose non-empty subtype contains or is contained in the non-empty
\* subtype of the row; the key matched by either pass is marked consumed, and a row
\* that matches in neither pass (or is not compared) consumes nothing
C25_ExactThenRelaxed ==
    [][(cmp_pc = "rows" /\ item_idx' = item_idx + 1) =>
          IF ~ComparableRow(item_idx)
          THEN matched_drawing_keys' = matched_drawing_keys
          ELSE IF KeyIndex(drawing_groups, ExactKey(item_idx)) # 0
          THEN ConsumedAt(item_idx, KeyIndex(drawing_groups, ExactKey(item_idx)))
          ELSE IF RelaxedCandidates(item_idx) # {}
          THEN \E g \in RelaxedCandidates(item_idx) : ConsumedAt(item_idx, g)
          ELSE /\ matched_drawing_keys' = matched_drawing_keys
               /\ comparison_items'[item_idx].drawing_quantity = <<>>
               /\ comparison_items'[item_idx].match_status = "BOM_ONLY"]_vars

\* a row whose exact key fitting:elbow_90 is absent consumed fitting:elbow_90_lr in
\* the relaxed pass, beside a row that matched in neither pass, and no other key
\* is consumed
C25_Witness ==
    /\ item_idx = 3
    /\ \E i \in RowsDone :
          /\ ComparableRow(i)
          /\ KeyIndex(drawing_groups, ExactKey(i)) = 0
          /\ ExactKey(i) = <<"f","i","t","t","i","n","g",":","e","l","b","o","w","_","9","0">>
          /\ matched_drawing_keys = {<<"f","i","t","t","i","n","g",":","e","l","b","o","w","_","9","0","_","l","r">>}
          /\ comparison_items[i].drawing_quantity # <<>>
    /\ \E j \in RowsDone :
          /\ ComparableRow(j)
          /\ comparison_items[j].match_status = "BOM_ONLY"

\* C26: a drawing key consumed by one BOM row stays available to the later rows:
\* every comparable row that matches a key, whether or not an earlier row consumed
\* it, is compared against the full quantity of that key, summed over the drawing
\* components of the key, and its verdict follows from its own quantity and that
\* sum alone, wherever the row stands in the table
C26_ConsumedKeyStaysAvailable ==
    \A i \in RowsDone :
        ComparableRow(i) =>
            /\ RowVerdictAsClaimed(i, RowMatch(i))
            /\ RowMatch(i) # 0 =>
                   /\ comparison_items[i].drawing_quantity =
                          <<SumOfKey(page_data.components, drawing_groups[RowMatch(i)].key)>>
                   /\ drawing_groups[RowMatch(i)].quantity =
                          SumOfKey(page_data.components, drawing_groups[RowMatch(i)].key)

\* two rows J "ELBOW 90 LR", 4 and 5, against fitting:elbow_90_lr drawn twice (4 and
\* 1): the first is MISMATCH with diff +1, the second MATCH, both against 5
C26_Witness ==
    /\ cmp_pc = "done"
    /\ Len(page_data.components) = 2
    /\ matched_drawing_keys = {<<"f","i","t","t","i","n","g",":","e","l","b","o","w","_","9","0","_","l","r">>}
    /\ Len(drawing_groups) = 1
    /\ \E i, j \in RowsDone :
          /\ i < j
          /\ ExactKey(i) = <<"f","i","t","t","i","n","g",":","e","l","b","o","w","_","9","0","_","l","r">> /\ ExactKey(j) = <<"f","i","t","t","i","n","g",":","e","l","b","o","w","_","9","0","_","l","r">>
          /\ comparison_items[i].match_status = "MISMATCH"
          /\ comparison_items[i].quantity_diff = Milli
          /\ comparison_items[i].drawing_quantity = <<5 * Milli>>
          /\ comparison_items[j].match_status = "MATCH"
          /\ comparison_items[j].drawing_quantity = <<5 * Milli>>

\* ------------------------------------- table pass: _postprocess_bom_items
\* Python truth of a JSON value: false for "", 0, None and an absent default
Truthy(v) == (v.t = "str" /\ v.s # <<>>) \/ (v.t = "num" /\ v.n # 0)

\* dict.get(key, default)
GetOr(v, default) == IF v.t = "missing" THEN default ELSE v

EmptyStr == Str(<<>>)

\* item.get("letter_code", "") or item.get("item_no", "")
LetterOf(item) ==
    IF Truthy(GetOr(item.letter_code, EmptyStr)) THEN item.letter_code
    ELSE GetOr(item.item_no, EmptyStr)

\* re.match(r'^([A-Z])\s+(.+)', desc): a capital, blanks, and a rest of at least one
\* character, which is a blank only when blanks are all that follows
LetterSplitMatches(desc) == Len(desc) >= 3 /\ IsUpperLetter(desc[1]) /\ IsSpace(desc[2])

RestFrom(desc, blanks_end) ==
    IF blanks_end < Len(desc) THEN SubSeq(desc, blanks_end + 1, Len(desc))
    ELSE SubSeq(desc, Len(desc), Len(desc))

LetterSplitRest(desc) == RestFrom(desc, RunEnd(desc, 2, {" "}))

MMAt(s, p) == p + 1 <= Len(s) /\ s[p] = "M" /\ s[p + 1] = "M"

\* the position of the second M of a match of ^\d+\s*MM, 0 when there is no match
CutPrefixFrom(s, digits_end) ==
    IF digits_end >= 1 /\ MMAt(s, RunEnd(s, digits_end + 1, {" "}) + 1)
    THEN RunEnd(s, digits_end + 1, {" "}) + 2
    ELSE 0

CutPrefixEnd(s) == CutPrefixFrom(s, RunEnd(s, 1, Range(DigitChars)))

\* re.match(r'^\d+\s*MM', s)
IsCutText(s) == CutPrefixEnd(s) # 0

\* str(n) of a whole number
RECURSIVE IntToStr(_)
IntToStr(n) ==
    IF n < 0 THEN <<"-">> \o IntToStr(-n)
    ELSE IF n < 10 THEN <<DigitChars[n + 1]>>
    ELSE IntToStr(n \div 10) \o <<DigitChars[(n % 10) + 1]>>

\* str(v) of a JSON value (the numbers of the model are whole)
StrOf(v) ==
    IF v.t = "str" THEN v.s
    ELSE IF v.t = "num" THEN IntToStr(v.n \div Milli)
    ELSE <<"N","o","n","e">>

\* the quantity of a row: a number becomes its text, 0 the empty text
QuantityText(qty) == IF qty.t = "num" /\ qty.n = 0 THEN <<>> ELSE Strip(StrOf(qty))

WeightOfRun(run) == IF run = <<>> THEN [ok |-> TRUE, v |-> 0] ELSE ParseFloat(run)

\* the weight of a row: the first number of a text, a number itself, 0 otherwise
WeightOf(weight) ==
    IF weight.t = "str" THEN WeightOfRun(FirstNumberRun(weight.s))
    ELSE [ok |-> TRUE, v |-> weight.n]

\* what one iteration of the loop does: raise, skip the item or keep a row
ItemRaises == [raised |-> TRUE, keep |-> FALSE, row |-> <<>>]

ItemSkipped == [raised |-> FALSE, keep |-> FALSE, row |-> <<>>]

ItemKept(letter, desc, qty, weight) ==
    [raised |-> FALSE, keep |-> TRUE,
     row |-> [letter_code |-> Strip(letter), quantity |-> qty,
              description |-> Strip(desc), weight_kg |-> weight]]

CleanRow(item, letter, desc, weight) ==
    IF ~weight.ok THEN ItemRaises
    ELSE ItemKept(letter, desc, QuantityText(GetOr(item.quantity, EmptyStr)), weight.v)

\* IsBlankRow with `or` for `and`: a row without a letter or without a description
IsBlankRow_Either(letter, desc) == ~Truthy(desc) \/ ~Truthy(letter)

\* `if not desc and not letter: continue` -- only a row with neither is blank
IsBlankRow(letter, desc) == ~Truthy(desc) /\ ~Truthy(letter)

\* the checks on a row once its letter is settled: blank, header, cut length
CheckRow(item, letter, desc) ==
    IF IsBlankRow(letter, desc) THEN ItemSkipped
    ELSE IF letter.t # "str" THEN ItemRaises
    ELSE IF Upper(letter.s) \in {<<"L","E","N","G","T","H">>, <<"C","U","T">>} THEN ItemSkipped
    ELSE IF desc.t # "str" THEN ItemRaises
    ELSE IF IsCutText(desc.s) \/ IsCutText(letter.s) THEN ItemSkipped
    ELSE CleanRow(item, letter.s, desc.s, WeightOf(GetOr(item.weight_kg, Num(0))))

\* the letter taken from the start of the description when the row has none
SplitLetter(item, letter, desc) ==
    IF ~Truthy(letter) /\ Truthy(desc)
    THEN IF desc.t # "str" THEN ItemRaises
         ELSE IF LetterSplitMatches(desc.s)
              THEN CheckRow(item, Str(<<desc.s[1]>>), Str(LetterSplitRest(desc.s)))
              ELSE CheckRow(item, letter, desc)
    ELSE CheckRow(item, letter, desc)

_postprocess_bom_item(item) ==
    IF ~item.dict THEN ItemSkipped
    ELSE SplitLetter(item, LetterOf(item), GetOr(item.description, EmptyStr))

\* ----------------------------------- table pass: _postprocess_cut_lengths
CutRaises == [raised |-> TRUE, keep |-> FALSE, cut |-> <<>>]

CutSkipped == [raised |-> FALSE, keep |-> FALSE, cut |-> <<>>]

CutKept(cut_no, length) ==
    [raised |-> FALSE, keep |-> TRUE, cut |-> [cut_no |-> cut_no, length_mm |-> length]]

IsDigitText(s) == s # <<>> /\ \A i \in 1..Len(s) : IsDigit(s[i])

\* int(cut_no) if cut_no and str(cut_no).isdigit() else len(cleaned_cuts) + 1
CutNumber(cut_no, n) ==
    IF Truthy(cut_no) /\ IsDigitText(StrOf(cut_no)) THEN DigitsValue(StrOf(cut_no)) ELSE n + 1

LengthOfRun(run) == IF run = <<>> THEN [ok |-> TRUE, v |-> 0] ELSE ParseFloat(run)

\* the length of a cut: the first number of a text, 0 for null, the number itself
CutLength(length) ==
    IF length.t = "str" THEN LengthOfRun(FirstNumberRun(length.s))
    ELSE [ok |-> TRUE, v |-> length.n]

ExplicitCut(cut, length, n) ==
    IF ~length.ok THEN CutRaises
    ELSE IF length.v > 0 THEN CutKept(CutNumber(GetOr(cut.cut_no, Num(0)), n), length.v)
    ELSE CutSkipped

\* one iteration of `for cut in (cuts or [])`, with n cuts collected so far
_postprocess_explicit_cut(cut, n) ==
    IF ~cut.dict THEN CutSkipped ELSE ExplicitCut(cut, CutLength(GetOr(cut.length_mm, Num(0))), n)

\* the cut number of ^(\d+)\s*MM\s*(?:<(\d+)>)?, <<>> when the group is absent; lt is
\* where a "<" has to be
CutNoGroup(s, lt, digits_end) ==
    IF lt <= Len(s) /\ s[lt] = "<" /\ digits_end > lt
           /\ digits_end + 1 <= Len(s) /\ s[digits_end + 1] = ">"
    THEN SubSeq(s, lt + 1, digits_end)
    ELSE <<>>

CutNoAt(s, lt) == CutNoGroup(s, lt, RunEnd(s, lt + 1, Range(DigitChars)))

CutNoAfter(s, mm_end) == CutNoAt(s, RunEnd(s, mm_end + 1, {" "}) + 1)

CutLengthDigits(s) == SubSeq(s, 1, RunEnd(s, 1, Range(DigitChars)))

RowCut(group, length, n) ==
    CutKept(IF group = <<>> THEN n + 1 ELSE DigitsValue(group), length)

\* one iteration of `for item in bom_items`: a row that reads as a cut length
\* becomes a cut (keep), any other row stays in the BOM
_separate_cut_row(item, n) ==
    IF IsCutText(item.description)
    THEN RowCut(CutNoAfter(item.description, CutPrefixEnd(item.description)),
                DigitsValue(CutLengthDigits(item.description)) * Milli, n)
    ELSE IF IsCutText(item.letter_code)
    THEN CutKept(n + 1, DigitsValue(CutLengthDigits(item.letter_code)) * Milli)
    ELSE CutSkipped

\* list.sort(key=cut_no): stable, a cut goes behind the cuts whose number is not greater
InsertCut(sorted, c) ==
    SubSeq(sorted, 1, Cardinality({i \in 1..Len(sorted) : sorted[i].cut_no <= c.cut_no}))
        \o <<c>>
        \o SubSeq(sorted, Cardinality({i \in 1..Len(sorted) : sorted[i].cut_no <= c.cut_no}) + 1,
                  Len(sorted))

RECURSIVE SortCuts(_)
SortCuts(cuts) ==
    IF cuts = <<>> THEN <<>>
    ELSE InsertCut(SortCuts(SubSeq(cuts, 1, Len(cuts) - 1)), cuts[Len(cuts)])

\* ------------------------------------------------ table pass: the inputs
RawItem(letter_code, item_no, description, quantity, weight_kg) ==
    [dict |-> TRUE, letter_code |-> letter_code, item_no |-> item_no,
     description |-> description, quantity |-> quantity, weight_kg |-> weight_kg]

RawItemPool ==
    { RawItem(Str(<<"A">>), Missing, Str(<<"P","I","P","E"," ","S","M","L","S">>), Str(<<"9",".","5"," ","M">>), Str(<<"1","2",".","5"," ","K","G">>)),
      RawItem(Missing, Missing, Str(<<"B"," ","E","L","B","O","W"," ","9","0"," ","L","R">>), Num(4), Num(3)),
      RawItem(Missing, Missing, Str(<<"S","U","B"," ","T","O","T","A","L">>), Missing, Str(<<"4","8",".","2">>)),
      RawItem(Str(<<>>), Missing, Str(<<>>), Missing, Missing),
      RawItem(Missing, Missing, Str(<<"7","3","6"," ","M","M"," ","<","1",">">>), Missing, Missing),
      RawItem(Missing, Missing, Str(<<" ","3","3","2"," ","M","M"," ","<","6",">">>), Missing, Missing),
      RawItem(Missing, Num(1), Str(<<"W","N"," ","F","L","A","N","G","E">>), Num(2), Missing),
      RawItem(Str(<<" ">>), Missing, Str(<<" ">>), Missing, Missing) }

RawCut(cut_no, length_mm) == [dict |-> TRUE, cut_no |-> cut_no, length_mm |-> length_mm]

RawCutPool ==
    { RawCut(Num(1), Num(736)),
      RawCut(Str(<<"1">>), Str(<<"3","3","2"," ","M","M">>)),
      RawCut(Num(2), Num(150)),
      RawCut(Missing, Num(500)),
      RawCut(Str(<<"0">>), Num(90)),
      RawCut(Num(4), Str(<<"1",".","2",".","3">>)) }

TblStart ==
    /\ table_data \in {[bom_items |-> b, cut_lengths |-> c] :
                          b \in SeqsNoRepeat(RawItemPool, MaxRaw),
                          c \in SeqsNoRepeat(RawCutPool, MaxCuts)}
    /\ raw_idx = 1
    /\ cleaned = <<>>
    /\ cut_idx = 1
    /\ cleaned_cuts = <<>>
    /\ bom_idx = 1
    /\ remaining_bom = <<>>
    /\ result = NoResult
    /\ tbl_pc = "run"

TblInit == TblStart /\ IdleBut("tbl")

\* ----------------------------------------------- table pass: the actions
\* an exception inside the try of the table pass: only the flag is set
TableRaised ==
    /\ tbl_pc' = "raised"
    /\ result' = [result EXCEPT !.table_analysis_ok = "false"]

TakeItem(r) ==
    IF r.raised
    THEN /\ TableRaised
         /\ UNCHANGED <<raw_idx, cleaned>>
    ELSE /\ cleaned' = IF r.keep THEN Append(cleaned, r.row) ELSE cleaned
         /\ raw_idx' = raw_idx + 1
         /\ UNCHANGED <<result, tbl_pc>>

\* _postprocess_bom_items, one iteration of `for item in items`
PostprocessBomItem ==
    /\ tbl_pc = "run"
    /\ raw_idx <= Len(table_data.bom_items)
    /\ TakeItem(_postprocess_bom_item(table_data.bom_items[raw_idx]))
    /\ UNCHANGED <<table_data, cut_idx, cleaned_cuts, bom_idx, remaining_bom>>
    /\ UNCHANGED notTblVars

TakeCut(r) ==
    IF r.raised
    THEN /\ TableRaised
         /\ UNCHANGED <<cut_idx, cleaned_cuts>>
    ELSE /\ cleaned_cuts' = IF r.keep THEN Append(cleaned_cuts, r.cut) ELSE cleaned_cuts
         /\ cut_idx' = cut_idx + 1
         /\ UNCHANGED <<result, tbl_pc>>

\* _postprocess_cut_lengths, one iteration of `for cut in (cuts or [])`
PostprocessExplicitCut ==
    /\ tbl_pc = "run"
    /\ raw_idx > Len(table_data.bom_items)
    /\ cut_idx <= Len(table_data.cut_lengths)
    /\ TakeCut(_postprocess_explicit_cut(table_data.cut_lengths[cut_idx], Len(cleaned_cuts)))
    /\ UNCHANGED <<table_data, raw_idx, cleaned, bom_idx, remaining_bom>>
    /\ UNCHANGED notTblVars

TakeRow(item, r) ==
    /\ cleaned_cuts' = IF r.keep THEN Append(cleaned_cuts, r.cut) ELSE cleaned_cuts
    /\ remaining_bom' = IF r.keep THEN remaining_bom ELSE Append(remaining_bom, item)
    /\ bom_idx' = bom_idx + 1

\* _postprocess_cut_lengths, one iteration of `for item in bom_items`
SeparateCutRow ==
    /\ tbl_pc = "run"
    /\ raw_idx > Len(table_data.bom_items)
    /\ cut_idx > Len(table_data.cut_lengths)
    /\ bom_idx <= Len(cleaned)
    /\ TakeRow(cleaned[bom_idx], _separate_cut_row(cleaned[bom_idx], Len(cleaned_cuts)))
    /\ UNCHANGED <<table_data, raw_idx, cleaned, cut_idx, result, tbl_pc>>
    /\ UNCHANGED notTblVars

\* the sort, the return and the assignments to the page record
TableDone ==
    /\ tbl_pc = "run"
    /\ raw_idx > Len(table_data.bom_items)
    /\ cut_idx > Len(table_data.cut_lengths)
    /\ bom_idx > Len(cleaned)
    /\ result' = [has_tables |-> TRUE, bom_table |-> remaining_bom,
                  cut_lengths |-> SortCuts(cleaned_cuts), table_analysis_ok |-> "true"]
    /\ tbl_pc' = "done"
    /\ UNCHANGED <<table_data, raw_idx, cleaned, cut_idx, cleaned_cuts, bom_idx, remaining_bom>>
    /\ UNCHANGED notTblVars

TblNext ==
    \/ PostprocessBomItem
    \/ PostprocessExplicitCut
    \/ SeparateCutRow
    \/ TableDone

SpecTable == TblInit /\ [][TblNext]_vars

\* ------------------------------------------------ properties of the table pass
\* C9 as stated: on a page record the table pass produced, the cut numbers of
\* cut_lengths are strictly positive and no cut number occurs twice.
C9_AsStated ==
    tbl_pc = "done" =>
        /\ \A i \in 1..Len(result.cut_lengths) : result.cut_lengths[i].cut_no > 0
        /\ \A i, j \in 1..Len(result.cut_lengths) :
               i # j => result.cut_lengths[i].cut_no # result.cut_lengths[j].cut_no

\* a raw row whose letter code, item number and description hold blanks at most,
\* and one blank at least
OnlyBlanks(raw) ==
    /\ raw.dict
    /\ LetterOf(raw).t = "str" /\ Strip(LetterOf(raw).s) = <<>>
    /\ raw.description.t = "str" /\ Strip(raw.description.s) = <<>>
    /\ LetterOf(raw).s # <<>> \/ raw.description.s # <<>>

\* a raw row with a description alone, which neither starts with a capital and a
\* blank nor reads as a cut length
DescriptionOnly(raw) ==
    /\ raw.dict
    /\ LetterOf(raw) = EmptyStr
    /\ raw.description.t = "str" /\ Strip(raw.description.s) # <<>>
    /\ ~(Len(raw.description.s) >= 3 /\ raw.description.s[1] \in Range(UpperAlpha)
            /\ raw.description.s[2] = " ")
    /\ ~IsCutText(Strip(raw.description.s))

IsCutRow(raw) ==
    raw.dict /\ raw.description.t = "str" /\ IsCutText(raw.description.s)

\* the cut a cut row stands for: the length before MM and, where the row has <n>,
\* the number n
IsCutOfRow(cut, desc) ==
    /\ cut.length_mm = DigitsValue(CutLengthDigits(desc)) * Milli
    /\ CutNoAfter(desc, CutPrefixEnd(desc)) # <<>>
           => cut.cut_no = DigitsValue(CutNoAfter(desc, CutPrefixEnd(desc)))

\* C16 as stated: a BOM row of the table-pass output whose description is a cut
\* length ("736 MM <1>") is taken out of bom_table and its cut (cut_no 1, length
\* 736) is put into cut_lengths; no such row is lost.
C16_AsStated ==
    tbl_pc = "done" =>
        \A k \in 1..Len(table_data.bom_items) :
            IsCutRow(table_data.bom_items[k]) =>
                /\ \A i \in 1..Len(result.bom_table) :
                       result.bom_table[i].description # table_data.bom_items[k].description.s
                /\ \E c \in 1..Len(result.cut_lengths) :
                       IsCutOfRow(result.cut_lengths[c], table_data.bom_items[k].description.s)

\* ---------------------------------------------------- process_bom_with_vlm
VlmStart ==
    /\ total_pages \in 1..MaxPages
    /\ text_pages \in 0..MaxPages
    /\ page_idx = 0
    /\ table_img = FALSE
    /\ page_result = NewPageResult(1)
    /\ results = <<>>
    /\ outcomes = <<>>
    /\ vlm_log = <<>>
    /\ vlm_pc = "render"

VlmInit == VlmStart /\ IdleBut("vlm")

SetOutcome(field, value) ==
    outcomes' = [outcomes EXCEPT ![page_idx + 1] = [@ EXCEPT ![field] = value]]

\* render_page_for_vlm returns: the full page is rendered, the crop of the table
\* is rendered or, caught inside, fails and gives table_path = None
RenderPage ==
    /\ vlm_pc = "render"
    /\ page_idx < total_pages
    /\ \E crop_ok \in BOOLEAN :
          /\ table_img' = crop_ok
          /\ outcomes' = Append(outcomes,
                 [NoOutcome EXCEPT !.render = IF crop_ok THEN "ok" ELSE "crop_failed"])
    /\ page_result' = NewPageResult(page_idx + 1)
    /\ vlm_pc' = "drawing"
    /\ UNCHANGED <<total_pages, text_pages, page_idx, results, vlm_log>>
    /\ UNCHANGED notVlmVars

\* render_page_for_vlm raises on the full page (get_pixmap, save): the call is not
\* inside a try, the exception leaves process_bom_with_vlm
RenderRaises ==
    /\ vlm_pc = "render"
    /\ page_idx < total_pages
    /\ outcomes' = Append(outcomes, [NoOutcome EXCEPT !.render = "raised"])
    /\ vlm_pc' = "raised"
    /\ UNCHANGED <<total_pages, text_pages, page_idx, table_img, page_result, results, vlm_log>>
    /\ UNCHANGED notVlmVars

\* the record after result.update(drawing_data): a "page" of the response
\* (vlm_page # 0) replaces the page number
DrawingUpdate(r, vlm_page) ==
    [r EXCEPT !.page = IF vlm_page = 0 THEN @ ELSE vlm_page, !.drawing_analysis_ok = "true"]

\* pass 1 of analyze_single_page: the call raises, or its response parses to
\* nothing, or it parses to an object
DrawingPass ==
    /\ vlm_pc = "drawing"
    /\ vlm_log' = Append(vlm_log, "call")
    /\ \/ /\ page_result' = [page_result EXCEPT !.drawing_analysis_ok = "false",
                                                !.drawing_error = TRUE]
          /\ SetOutcome("drawing", "raised")
       \/ /\ page_result' = [page_result EXCEPT !.drawing_analysis_ok = "false"]
          /\ SetOutcome("drawing", "empty")
       \/ /\ \E vlm_page \in 0..MaxPages : page_result' = DrawingUpdate(page_result, vlm_page)
          /\ SetOutcome("drawing", "ok")
    /\ vlm_pc' = "table"
    /\ UNCHANGED <<total_pages, text_pages, page_idx, table_img, results>>
    /\ UNCHANGED notVlmVars

\* pass 2 of analyze_single_page, with a table crop: the call or the
\* post-processing raises, or the response parses to nothing (no flag is set), or
\* the tables are put on the record
TablePass ==
    /\ vlm_pc = "table"
    /\ table_img
    /\ vlm_log' = Append(vlm_log, "call")
    /\ \/ /\ page_result' = [page_result EXCEPT !.table_analysis_ok = "false"]
          /\ SetOutcome("table", "raised")
       \/ /\ UNCHANGED page_result
          /\ SetOutcome("table", "empty")
       \/ /\ page_result' = [page_result EXCEPT !.table_analysis_ok = "true",
                                                !.has_bom_table = TRUE]
          /\ SetOutcome("table", "ok")
    /\ vlm_pc' = "finish"
    /\ UNCHANGED <<total_pages, text_pages, page_idx, table_img, results>>
    /\ UNCHANGED notVlmVars

\* pass 2 is left out when there is no table crop
TablePassSkipped ==
    /\ vlm_pc = "table"
    /\ ~table_img
    /\ SetOutcome("table", "skipped")
    /\ vlm_pc' = "finish"
    /\ UNCHANGED <<total_pages, text_pages, page_idx, table_img, page_result, results, vlm_log>>
    /\ UNCHANGED notVlmVars

\* _merge_text_and_vlm where there is a text record for the page
Merged(r) == IF text_pages > page_idx THEN [r EXCEPT !.merged = TRUE] ELSE r

\* results.append, the progress callback and the sleep between two pages
AppendPage(r) ==
    /\ results' = Append(results, Merged(r))
    /\ page_idx' = page_idx + 1
    /\ vlm_log' = IF page_idx + 1 < total_pages THEN Append(vlm_log, "sleep") ELSE vlm_log
    /\ vlm_pc' = "render"

\* analyze_single_page returns its record
FinishPage ==
    /\ vlm_pc = "finish"
    /\ SetOutcome("analyze", "ok")
    /\ AppendPage(page_result)
    /\ UNCHANGED <<total_pages, text_pages, table_img, page_result>>
    /\ UNCHANGED notVlmVars

\* analyze_single_page raises outside its two try blocks (_enrich_from_drawing_info
\* on a drawing_info that is no object): the record is {"page", "error"}
AnalyzeRaises ==
    /\ vlm_pc = "finish"
    /\ page_result.has_bom_table \/ page_result.drawing_analysis_ok = "true"
    /\ SetOutcome("analyze", "raised")
    /\ AppendPage([NewPageResult(page_idx + 1) EXCEPT !.error = TRUE])
    /\ UNCHANGED <<total_pages, text_pages, table_img, page_result>>
    /\ UNCHANGED notVlmVars

\* _merge_text_and_vlm raises (a weld count or pipe_pieces of the response that is
\* no number, no list): the call is not inside a try
MergeRaises ==
    /\ vlm_pc = "finish"
    /\ text_pages > page_idx
    /\ page_result.drawing_analysis_ok = "true"
    /\ SetOutcome("analyze", "merge_raised")
    /\ vlm_pc' = "raised"
    /\ UNCHANGED <<total_pages, text_pages, page_idx, table_img, page_result, results, vlm_log>>
    /\ UNCHANGED notVlmVars

\* after the last page: the document is closed, the records are written and returned
ReturnResults ==
    /\ vlm_pc = "render"
    /\ page_idx = total_pages
    /\ vlm_pc' = "done"
    /\ UNCHANGED <<total_pages, text_pages, page_idx, table_img, page_result, results,
                   outcomes, vlm_log>>
    /\ UNCHANGED notVlmVars

VlmNext ==
    \/ RenderPage
    \/ RenderRaises
    \/ DrawingPass
    \/ TablePass
    \/ TablePassSkipped
    \/ FinishPage
    \/ AnalyzeRaises
    \/ MergeRaises
    \/ ReturnResults

SpecVlm == VlmInit /\ [][VlmNext]_vars

\* ------------------------------------------- properties of the VLM pipeline
\* a page on which something failed: the crop, a VLM call, a response that does not
\* parse, or the analysis as a whole
PageFailed(o) ==
    \/ o.render = "crop_failed"
    \/ o.drawing \in {"raised", "empty"}
    \/ o.table \in {"raised", "empty"}
    \/ o.analyze = "raised"

Flagged(r) ==
    r.drawing_analysis_ok = "false" \/ r.table_analysis_ok = "false" \/ r.drawing_error \/ r.error

\* C2 as stated: a failure on a single page never aborts the run; the list returned
\* has one record for every page, the record of a failed page carries a failure
\* flag or an error message, and the later pages are processed.
C2_AsStated ==
    /\ vlm_pc # "raised"
    /\ vlm_pc = "done" =>
          /\ Len(results) = total_pages
          /\ \A i \in 1..total_pages : PageFailed(outcomes[i]) => Flagged(results[i])

\* C20 as stated: the list returned is in page order: the record at position i
\* (from 0) has the page number i + 1, whatever "page" the VLM responses hold.
C20_AsStated ==
    vlm_pc = "done" => \A i \in 1..Len(results) : results[i].page = i

\* C21: between any two consecutive VLM calls of a run, those of the two passes
\* of one page as well as the last of a page and the first of the next, a sleep
\* is taken
C21_AsStated ==
    \A i \in 1..(Len(vlm_log) - 1) : ~(vlm_log[i] = "call" /\ vlm_log[i + 1] = "call")

\* ------------------------------ analyze_single_page and _merge_text_and_vlm
\* JSON values besides Str, Num and Null: booleans, lists and objects
Bool(b) == [t |-> "bool", b |-> b]

List(items) == [t |-> "list", items |-> items]

Obj(d) == [t |-> "dict", d |-> d]

\* d.get(k, default)
DictGet(d, k, default) == IF k \in DOMAIN d THEN d[k] ELSE default

\* d[k] = v
DictPut(d, k, v) == [x \in (DOMAIN d) \cup {k} |-> IF x = k THEN v ELSE d[x]]

\* d.update(e)
DictUpdate(d, e) ==
    [x \in (DOMAIN d) \cup (DOMAIN e) |-> IF x \in DOMAIN e THEN e[x] ELSE d[x]]

\* the truth value Python gives a JSON value
PyTruth(v) ==
    \/ v.t = "str" /\ v.s # <<>>
    \/ v.t = "num" /\ v.n # 0
    \/ v.t = "bool" /\ v.b
    \/ v.t = "list" /\ v.items # <<>>
    \/ v.t = "dict" /\ DOMAIN v.d # {}

\* s.startswith(prefix)
StartsWith(s, prefix) == Len(s) >= Len(prefix) /\ SubSeq(s, 1, Len(prefix)) = prefix

\* result = {"page": page_num, "vlm_source": ...}
ResultOfPage(page_num) == [page |-> Num(page_num), vlm_source |-> Str(<<"c","l","a","u","d","e","-","s","o","n","n","e","t","-","4","-","5">>)]

\* pass 1 on the record: the call raised, the response parsed to nothing (an empty
\* dict), or result.update(drawing_data)
DrawingPassOn(r, raised, drawing) ==
    IF raised
    THEN DictPut(DictPut(r, "drawing_analysis_ok", Bool(FALSE)), "drawing_error", Str(<<"t","i","m","e","o","u","t">>))
    ELSE IF DOMAIN drawing = {}
    THEN DictPut(r, "drawing_analysis_ok", Bool(FALSE))
    ELSE DictPut(DictUpdate(r, drawing), "drawing_analysis_ok", Bool(TRUE))

\* pass 2 on the record: no table crop or a response that parsed to nothing, the
\* call raised, or the tables of the response (here a response without rows)
TablePassOn(r, table) ==
    IF table = "none" THEN r
    ELSE IF table = "raised" THEN DictPut(r, "table_analysis_ok", Bool(FALSE))
    ELSE DictPut(DictPut(DictPut(r, "bom_table", List(<<>>)), "cut_lengths", List(<<>>)),
                 "table_analysis_ok", Bool(TRUE))

\* a weld point of the drawing response
WeldPoint(id) ==
    Obj([id |-> Str(id),
         type |-> Str(IF StartsWith(id, <<"F","F","W">>) THEN <<"f","i","e","l","d","_","f","i","t","_","w","e","l","d">> ELSE <<"s","h","o","p","_","w","e","l","d">>)])

\* a pipe piece of the drawing response
PipePiece(id, size) ==
    Obj([id |-> Str(id), size |-> Str(size), schedule |-> Str(<<"4","0">>), material |-> Str(<<"C","S">>)])

\* the parsed drawing responses the model draws from: nothing; a response whose
\* counts agree with its weld points; one whose counts do not; one with another
\* page number and its pieces as plain texts; one with a text for the weld count
\* and null for the pieces
DrawingPool ==
    { EmptyDict,
      [page |-> Num(1),
       pipe_pieces |-> List(<<PipePiece(<<"A","B","1","2","3">>, <<"2">>)>>),
       weld_points |-> List(<<WeldPoint(<<"W","1">>), WeldPoint(<<"F","F","W","1">>)>>),
       dimensions_mm |-> List(<<Obj([length_mm |-> Num(500)])>>),
       total_weld_count |-> Num(2), shop_weld_count |-> Num(1), field_weld_count |-> Num(1)],
      [page |-> Num(1),
       weld_points |-> List(<<WeldPoint(<<"W","1">>)>>),
       total_weld_count |-> Num(1), shop_weld_count |-> Num(2), field_weld_count |-> Num(0)],
      [page |-> Num(7),
       pipe_pieces |-> List(<<Str(<<"C","D","4","5","6">>)>>),
       weld_points |-> List(<<WeldPoint(<<"W","1">>), WeldPoint(<<"W","2">>)>>),
       total_weld_count |-> Num(2), shop_weld_count |-> Num(2), field_weld_count |-> Num(0)],
      [page |-> Num(1), pipe_pieces |-> Null, total_weld_count |-> Str(<<"1","6">>)] }

\* a record of extract_pipe_bom (pipe_bom_service.py)
TextRecord(page_num, pieces, welds, dims, loose) ==
    [page |-> Num(page_num), pipe_pieces |-> List(pieces), weld_count |-> Num(Len(welds)),
     weld_items |-> List(welds), dimensions_mm |-> List(dims), other_dims |-> List(<<>>),
     has_loose |-> Bool(loose), revision_notes |-> List(<<>>), title_block |-> List(<<>>),
     table_text |-> List(<<>>), is_cover |-> Bool(FALSE)]

\* the text records the model draws from
TextPool ==
    { TextRecord(1, <<>>, <<>>, <<>>, FALSE),
      TextRecord(1, <<Str(<<"A","B","1","2","3">>)>>, <<>>, <<Num(736)>>, FALSE),
      TextRecord(1, <<Str(<<"A","B","1","2","3">>), Str(<<"C","D","4","5","6">>), Str(<<"E","F","7","8","9">>)>>,
                 <<Str(<<"W","1">>), Str(<<"W","2">>), Str(<<"F","F","W","1">>)>>, <<Num(736), Num(1200)>>, TRUE) }

\* pp.get("id", "") of an object, str(pp) of anything else
PieceId(pp) == IF pp.t = "dict" THEN DictGet(pp.d, "id", Str(<<>>)) ELSE Str(StrOf(pp))

\* text_pieces - vlm_pieces
MissingPieces(text, vlm) ==
    Range(DictGet(text, "pipe_pieces", List(<<>>)).items)
        \ {PieceId(pp) : pp \in Range(DictGet(vlm, "pipe_pieces", List(<<>>)).items)}

\* the orders in which a set of texts can be iterated: the order of a Python set
\* follows the hashes of its members, which differ from one process to the next
IterationOrders(S) == {o \in SeqsNoRepeat(S, Cardinality(S)) : Len(o) = Cardinality(S)}

\* the piece appended for a text-only id
TextPiece(mp) ==
    Obj([id |-> mp, size |-> Str(<<>>), schedule |-> Str(<<>>), material |-> Str(<<>>),
         source |-> Str(<<"t","e","x","t","_","e","x","t","r","a","c","t","i","o","n">>)])

WithMissingPieces(r, order) ==
    IF order = <<>> THEN r
    ELSE DictPut(r, "pipe_pieces",
             List(DictGet(r, "pipe_pieces", List(<<>>)).items
                      \o [i \in 1..Len(order) |-> TextPiece(order[i])]))

\* both counts are kept and their maximum becomes the count of the record
WithWeldCounts(r, text_weld_count, vlm_weld_count) ==
    IF text_weld_count.n > 0 /\ vlm_weld_count.n > 0
    THEN DictPut(DictPut(DictPut(r, "weld_count_text", text_weld_count),
                         "weld_count_vlm", vlm_weld_count),
                 "total_weld_count",
                 IF text_weld_count.n >= vlm_weld_count.n THEN text_weld_count
                 ELSE vlm_weld_count)
    ELSE r

\* the dimensions of the text, where the VLM record has none
WithDimensions(r, text_dims) ==
    IF PyTruth(text_dims) /\ ~PyTruth(DictGet(r, "dimensions_mm", Null))
    THEN DictPut(r, "dimensions_mm",
             List([i \in 1..Len(text_dims.items) |->
                      Obj([length_mm |-> text_dims.items[i], source |-> Str(<<"t","e","x","t">>)])]))
    ELSE r

\* merged = dict(vlm_data), then the three steps; `order` is the order in which
\* the set missing_pieces is iterated
_merge_text_and_vlm(text, vlm, order) ==
    WithDimensions(
        WithWeldCounts(WithMissingPieces(vlm, order),
                       DictGet(text, "weld_count", Num(0)),
                       DictGet(vlm, "total_weld_count", Num(0))),
        DictGet(text, "dimensions_mm", List(<<>>)))

\* the merge raises TypeError: pipe_pieces that cannot be iterated, or a weld count
\* that cannot be compared with 0 (reached only when the text has welds)
MergeRaisesOn(text, vlm) ==
    \/ DictGet(vlm, "pipe_pieces", List(<<>>)).t # "list"
    \/ /\ DictGet(text, "weld_count", Num(0)).n > 0
       /\ DictGet(vlm, "total_weld_count", Num(0)).t # "num"

\* the page has a text record, or text_extraction_data has none for it
MrgStart ==
    /\ text_data \in TextPool \cup {EmptyDict}
    /\ vlm_data = EmptyDict
    /\ merged = EmptyDict
    /\ merged_again = EmptyDict
    /\ merged_twice = EmptyDict
    /\ mrg_pc = "analyze"

MrgInit == MrgStart /\ IdleBut("mrg")

\* analyze_single_page returns the record of the two passes
AnalyzeSinglePage ==
    /\ mrg_pc = "analyze"
    /\ \E raised \in BOOLEAN, drawing \in DrawingPool, table \in {"none", "raised", "ok"} :
          vlm_data' = TablePassOn(DrawingPassOn(ResultOfPage(1), raised, drawing), table)
    /\ mrg_pc' = "merge"
    /\ UNCHANGED <<text_data, merged, merged_again, merged_twice>>
    /\ UNCHANGED notMrgVars

\* analyze_single_page raises: page_result = {"page": page_num, "error": str(e)}
AnalyzeSinglePageRaises ==
    /\ mrg_pc = "analyze"
    /\ vlm_data' = [page |-> Num(1), error |-> Str(<<"A","t","t","r","i","b","u","t","e","E","r","r","o","r">>)]
    /\ mrg_pc' = "merge"
    /\ UNCHANGED <<text_data, merged, merged_again, merged_twice>>
    /\ UNCHANGED notMrgVars

\* no text record for the page: the record of the analysis is appended as it is
NoTextRecord ==
    /\ mrg_pc = "merge"
    /\ text_data = EmptyDict
    /\ merged' = vlm_data
    /\ merged_again' = vlm_data
    /\ mrg_pc' = "done"
    /\ UNCHANGED <<text_data, vlm_data, merged_twice>>
    /\ UNCHANGED notMrgVars

MergeTextAndVlm ==
    /\ mrg_pc = "merge"
    /\ text_data # EmptyDict
    /\ ~MergeRaisesOn(text_data, vlm_data)
    /\ \E order \in IterationOrders(MissingPieces(text_data, vlm_data)) :
          merged' = _merge_text_and_vlm(text_data, vlm_data, order)
    /\ mrg_pc' = "again"
    /\ UNCHANGED <<text_data, vlm_data, merged_again, merged_twice>>
    /\ UNCHANGED notMrgVars

\* the exception leaves process_bom_with_vlm
MergeTextAndVlmRaises ==
    /\ mrg_pc = "merge"
    /\ text_data # EmptyDict
    /\ MergeRaisesOn(text_data, vlm_data)
    /\ mrg_pc' = "raised"
    /\ UNCHANGED <<text_data, vlm_data, merged, merged_again, merged_twice>>
    /\ UNCHANGED notMrgVars

\* the pipeline runs once more, in another process, on the same PDF, the same text
\* records and the same VLM responses
MergeTextAndVlmAgain ==
    /\ mrg_pc = "again"
    /\ \E order \in IterationOrders(MissingPieces(text_data, vlm_data)) :
          merged_again' = _merge_text_and_vlm(text_data, vlm_data, order)
    /\ mrg_pc' = "done"
    /\ UNCHANGED <<text_data, vlm_data, merged, merged_twice>>
    /\ UNCHANGED notMrgVars

\* _merge_text_and_vlm is applied to the merged record, with the same text record
MergeIntoMerged ==
    /\ mrg_pc = "done"
    /\ text_data # EmptyDict
    /\ ~MergeRaisesOn(text_data, merged)
    /\ \E order \in IterationOrders(MissingPieces(text_data, merged)) :
          merged_twice' = _merge_text_and_vlm(text_data, merged, order)
    /\ mrg_pc' = "twice"
    /\ UNCHANGED <<text_data, vlm_data, merged, merged_again>>
    /\ UNCHANGED notMrgVars

MrgNext ==
    \/ AnalyzeSinglePage
    \/ AnalyzeSinglePageRaises
    \/ NoTextRecord
    \/ MergeTextAndVlm
    \/ MergeTextAndVlmRaises
    \/ MergeTextAndVlmAgain
    \/ MergeIntoMerged

SpecMerge == MrgInit /\ [][MrgNext]_vars

\* ---------------------------------------------- properties of the merged record
\* the record of the page has been appended to the results
Emitted == mrg_pc \in {"again", "done"}

\* a count of the record, 0 when the record has none
CountOf(r, k) == DictGet(r, k, Num(0)).n

\* the positions of the weld points of the record whose id starts with "FFW"
FieldWelds(r) ==
    {i \in 1..Len(DictGet(r, "weld_points", List(<<>>)).items) :
        StartsWith(DictGet(r, "weld_points", List(<<>>)).items[i].d.id.s, <<"F","F","W">>)}

ShopWelds(r) == (1..Len(DictGet(r, "weld_points", List(<<>>)).items)) \ FieldWelds(r)

\* C11 as stated: in every page record emitted, shop_weld_count + field_weld_count
\* is at most total_weld_count, shop_weld_count is the number of weld points whose
\* id does not start with "FFW" and field_weld_count the number of those whose id
\* does.
C11_AsStated ==
    Emitted =>
        /\ CountOf(merged, "shop_weld_count") + CountOf(merged, "field_weld_count")
               <= CountOf(merged, "total_weld_count")
        /\ CountOf(merged, "shop_weld_count") = Cardinality(ShopWelds(merged)) * Milli
        /\ CountOf(merged, "field_weld_count") = Cardinality(FieldWelds(merged)) * Milli

\* C14 as stated: two runs of the pipeline on the same PDF, with the same VLM
\* responses and the same text records, give the same record, the order of every
\* list included (the order of the text-only pieces appended to pipe_pieces).
C14_AsStated == mrg_pc = "done" => merged_again = merged

\* the analysis gave the record nothing but its page number and its flags
EmptyVlmResult ==
    DOMAIN vlm_data \subseteq
        {"page", "vlm_source", "drawing_analysis_ok", "drawing_error", "table_analysis_ok",
         "error"}

\* C19 as stated: merging the text record of a page with an empty VLM result gives
\* the text record back: every field of the text record is in the merged record
\* with the value the text record has.
C19_AsStated ==
    (Emitted /\ text_data # EmptyDict /\ EmptyVlmResult) =>
        \A k \in DOMAIN text_data : k \in DOMAIN merged /\ merged[k] = text_data[k]

\* C27 as stated: after the text record is merged into the VLM record of a page,
\* for every pair of counts, a count of 0 or a missing count included, the merged
\* record has weld_count_text and weld_count_vlm and its total_weld_count is the
\* greater of the weld count of the text and the weld count of the VLM.
C27_AsStated ==
    (Emitted /\ text_data # EmptyDict) =>
        /\ "weld_count_text" \in DOMAIN merged
        /\ "weld_count_vlm" \in DOMAIN merged
        /\ CountOf(merged, "total_weld_count") =
               (IF CountOf(text_data, "weld_count") >= CountOf(vlm_data, "total_weld_count")
                THEN CountOf(text_data, "weld_count")
                ELSE CountOf(vlm_data, "total_weld_count"))

\* C30 as stated: _merge_text_and_vlm applied with the same text record to an
\* already merged record returns a record equal to the one given: no pipe piece is
\* added twice, and total_weld_count, weld_count_text, weld_count_vlm and
\* dimensions_mm keep their values.
C30_AsStated == mrg_pc = "twice" => merged_twice = merged

\* ------------------------------------------ extract_symbols_from_legend
SYMBOL_CATEGORIES ==
    {<<"P","I","P","I","N","G">>, <<"V","A","L","V","E">>, <<"A","C","T","U","A","T","O","R">>, <<"A","C","T","U","A","T","E","D","_","V","A","L","V","E">>, <<"S","A","F","E","T","Y","_","D","E","V","I","C","E">>, <<"O","T","H","E","R">>}

\* regular expressions are matched on sets of positions: P holds the positions a
\* match has come to, 1 being the start of the text
\* a literal
Lit(P, s, w) ==
    {q + Len(w) : q \in {p \in P : p + Len(w) - 1 <= Len(s) /\ SubSeq(s, p, p + Len(w) - 1) = w}}

\* a run of at least `least` characters of a set: \s*, \s+, [\-\s]*
Run(P, s, set, least) ==
    {q \in 1..(Len(s) + 1) : \E p \in P : q >= p + least /\ \A i \in p..(q - 1) : s[i] \in set}

IsWordChar(c) == c \in Range(UpperAlpha) \cup Range(LowerAlpha) \cup Range(DigitChars) \cup {"_"}

\* \b behind a letter
WordEnd(P, s) == {p \in P : p > Len(s) \/ ~IsWordChar(s[p])}

\* $
AtEnd(P, s) == (Len(s) + 1) \in P

\* ^w
Prefix(s, w) == Lit({1}, s, w) # {}

\* one NN" and the blanks behind it
QuoteNN(P, s) == Run(Lit(P, s, <<"N", "N", "\"">>), s, {" "}, 0)

\* (NN"\s*)+ : one group, then up to n more
RECURSIVE QuoteNNs(_, _, _)
QuoteNNs(P, s, n) == IF n = 0 \/ P = {} THEN P ELSE P \cup QuoteNNs(QuoteNN(P, s), s, n - 1)

\* GARBAGE_PATTERNS, in the order of the list, each matched with re.IGNORECASE:
\* on the text in capitals
GarbageMatches(u) ==
    \/ Len(u) = 1 /\ u[1] \in Range(<<"A","B","C","D","E","F","G","H","I","J","K">>)
    \/ Len(u) = 2 /\ u[1] = "1" /\ u[2] \in Range(<<"0","1","2","3","4","5","6">>)
    \/ Len(u) = 1 /\ u[1] \in Range(<<"1","2","3","4","5","6","7","8","9">>)
    \/ u \in {<<"S","Y","M","B","O","L">>, <<"D","E","S","C","R","I","P","T","I","O","N">>, <<"D","I","S","C","R","I","P","T","I","O","N">>, <<"S","Y","M","B","O","L","S">>}
    \/ \E w \in {<<"S","H","I","P"," ","N","O">>, <<"C","L","I","E","N","T">>, <<"D","R","A","W","I","N","G">>, <<"D","A","T","E">>, <<"S","C","A","L","E">>, <<"C","H","E","C","K","E","D">>,
                 <<"A","P","P","R","O","V","E","D">>} : Prefix(u, w)
    \/ WordEnd(Lit({1}, u, <<"R","E","V">>), u) # {}
    \/ Lit(Run(Lit({1}, u, <<"A","A">>), u, {" "}, 0), u, <<"A","A">>) # {}
    \/ WordEnd(Lit({1}, u, <<"N","A","N">>), u) # {}
    \/ Prefix(u, <<"N", "N", "\"">>)
    \/ AtEnd(Run({1}, u, {" "}, 0), u)
    \/ u = <<"I","N","S","T","R","U","M","E","N","T">>
    \/ Lit(Run(Lit(Run(Lit({1}, u, <<"I","N","S","T","R","U","M","E","N","T">>), u, {" "}, 1), u, <<"V","A","L","V","E">>), u, {" "}, 1),
           u, <<"B","O","D","I","E","S">>) # {}
    \/ Prefix(u, <<"L","E","G","E","N","D"," ","S","Y","M","B","O","L">>)
    \/ Lit(Run(Lit({1}, u, <<"M","O","T","O","R">>), u, {"-", " "}, 0), u, <<"H","E","L","M","E","T">>) # {}
    \/ Run(Lit({1}, u, <<"A","A">>), u, {" "}, 1) # {}
    \/ AtEnd(QuoteNNs(QuoteNN({1}, u), u, Len(u)), u)
    \/ Prefix(u, <<"P","I","P","I","N","G"," ","S","Y","M","B","O","L","S">>)
    \/ Prefix(u, <<"V","A","L","V","E"," ","S","Y","M","B","O","L","S">>)
    \/ u \in {<<"A","C","T","U","A","T","O","R">>, <<"A","C","T","U","A","T","O","R","S">>}
    \/ AtEnd(Lit(Run(Lit({1}, u, <<"A","C","T","U","A","T","E","D">>), u, {" "}, 1), u, <<"V","A","L","V","E">>), u)
    \/ AtEnd(Lit(Run(Lit({1}, u, <<"A","C","T","U","A","T","E","D">>), u, {" "}, 1), u, <<"V","A","L","V","E","S">>), u)
    \/ Lit(Run(Lit({1}, u, <<"S","A","F","E","T","Y">>), u, {" "}, 1), u, <<"D","E","V","I","C","E">>) # {}
    \/ Lit(Run(Lit({1}, u, <<"O","T","H","E","R">>), u, {" "}, 1), u, <<"S","Y","M","B","O","L">>) # {}

\* a pattern of the list matches the description
IsGarbage(desc) == GarbageMatches(Upper(desc))

\* (x or default)
OrElse(v, default) == IF PyTruth(v) THEN v ELSE Str(default)

\* str.replace(" ", "_")
ReplaceBlanks(s) == [i \in 1..Len(s) |-> IF s[i] = " " THEN "_" ELSE s[i]]

NormalCategory(cat) == IF cat \in SYMBOL_CATEGORIES THEN cat ELSE <<"O","T","H","E","R">>

\* (sym.get("category") or "OTHER").upper().strip().replace(" ", "_"), OTHER when
\* it is not one of the categories
CategoryOf(v) == NormalCategory(ReplaceBlanks(Strip(Upper(v.s))))

SymRaises == [raised |-> TRUE, keep |-> FALSE, sym |-> <<>>, key |-> <<>>]

SymSkipped == [raised |-> FALSE, keep |-> FALSE, sym |-> <<>>, key |-> <<>>]

SymKept(sym, key) == [raised |-> FALSE, keep |-> TRUE, sym |-> sym, key |-> key]

\* the key duplicates are found by: the description, stripped, in capitals
DescKey_CaseSensitive(desc) == desc

DescKey(desc) == Upper(desc)

\* a symbol of the list returned; its id is given when the list is complete
Symbol(category, symbol_name, description) ==
    [id |-> 0, category |-> category, symbol_name |-> symbol_name, description |-> description]

DedupSymbol(sym, desc, seen_keys) ==
    IF DescKey(desc) \in seen_keys THEN SymSkipped
    ELSE SymKept(Symbol(CategoryOf(OrElse(sym.category, <<"O","T","H","E","R">>)),
                        Strip(OrElse(sym.symbol_name, <<>>).s), desc),
                 DescKey(desc))

NormalizeSymbol(sym, desc, seen_keys) ==
    IF OrElse(sym.category, <<"O","T","H","E","R">>).t # "str" \/ OrElse(sym.symbol_name, <<>>).t # "str"
    THEN SymRaises
    ELSE DedupSymbol(sym, desc, seen_keys)

FilterSymbol(sym, desc, seen_keys) ==
    IF Len(desc) < 3 \/ IsGarbage(desc) THEN SymSkipped
    ELSE NormalizeSymbol(sym, desc, seen_keys)

\* one iteration of `for sym in symbols` of _validate_and_clean
_validate_symbol(sym, seen_keys) ==
    IF ~sym.dict \/ OrElse(sym.description, <<>>).t # "str" THEN SymRaises
    ELSE FilterSymbol(sym, Strip(OrElse(sym.description, <<>>).s), seen_keys)

\* a row of the VLM response, or of the text layer
RawSymbol(category, symbol_name, description) ==
    [dict |-> TRUE, category |-> category, symbol_name |-> symbol_name,
     description |-> description]

\* the rows of a VLM response the model draws from
VlmSymbolPool ==
    { RawSymbol(Str(<<"V","A","L","V","E">>), Str(<<>>), Str(<<"B","A","L","L"," ","V","A","L","V","E">>)),
      RawSymbol(Str(<<"v","a","l","v","e">>), Str(<<" ","B","V"," ">>), Str(<<" ","B","a","l","l"," ","V","a","l","v","e"," ">>)),
      RawSymbol(Str(<<"a","c","t","u","a","t","e","d"," ","v","a","l","v","e">>), Null, Str(<<"G","a","t","e"," ","V","a","l","v","e">>)),
      RawSymbol(Missing, Str(<<>>), Str(<<"S","y","m","b","o","l","s">>)),
      RawSymbol(Str(<<"P","I","P","I","N","G">>), Str(<<"T","S">>), Str(<<"T","S">>)),
      RawSymbol(Str(<<"F","I","T","T","I","N","G">>), Str(<<>>), Str(<<"R","E","V"," ","A">>)),
      RawSymbol(Str(<<"P","I","P","I","N","G">>), Str(<<>>), Num(12)) }

\* the rows of the text layer the model draws from: texts throughout, the category
\* of the section they stand in
TextSymbolPool ==
    { RawSymbol(Str(<<"V","A","L","V","E">>), Str(<<>>), Str(<<"B","A","L","L"," ","V","A","L","V","E">>)),
      RawSymbol(Str(<<"P","I","P","I","N","G">>), Str(<<"B","V">>), Str(<<"B","a","l","l"," ","v","a","l","v","e">>)),
      RawSymbol(Str(<<"O","T","H","E","R">>), Str(<<>>), Str(<<"D","R","A","W","I","N","G"," ","N","O">>)) }

\* the lists of at most n rows of a pool
ListsOf(pool, n) == UNION {[1..k -> pool] : k \in 0..n}

LegStart ==
    /\ vlm_symbols = <<>>
    /\ text_symbols = <<>>
    /\ symbols = <<>>
    /\ sym_idx = 1
    /\ cleaned_symbols = <<>>
    /\ seen = {}
    /\ leg_source = "none"
    /\ leg_pc = "vlm"

LegInit == LegStart /\ IdleBut("leg")

\* phases 1 and 2: the page is rendered and _analyze_legend_with_vlm returns a list
AnalyzeLegendWithVlm ==
    /\ leg_pc = "vlm"
    /\ vlm_symbols' \in ListsOf(VlmSymbolPool, MaxSymbols)
    /\ symbols' = vlm_symbols'
    /\ sym_idx' = 1
    /\ cleaned_symbols' = <<>>
    /\ seen' = {}
    /\ leg_source' = "vlm"
    /\ leg_pc' = "clean"
    /\ UNCHANGED text_symbols
    /\ UNCHANGED notLegVars

\* the render or the VLM call raises, or the response is no list
AnalyzeLegendRaises ==
    /\ leg_pc = "vlm"
    /\ leg_pc' = "fallback"
    /\ UNCHANGED <<vlm_symbols, text_symbols, symbols, sym_idx, cleaned_symbols, seen,
                   leg_source>>
    /\ UNCHANGED notLegVars

\* the row is kept, or it is skipped, or (a row of the VLM only) it raises
ValidateRow(row) ==
    /\ cleaned_symbols' = IF row.keep THEN Append(cleaned_symbols, row.sym) ELSE cleaned_symbols
    /\ seen' = IF row.keep THEN seen \cup {row.key} ELSE seen
    /\ sym_idx' = IF row.raised THEN sym_idx ELSE sym_idx + 1
    /\ leg_pc' = IF row.raised THEN "fallback" ELSE leg_pc

\* _validate_and_clean, one row
ValidateAndClean ==
    /\ leg_pc = "clean"
    /\ sym_idx <= Len(symbols)
    /\ ValidateRow(_validate_symbol(symbols[sym_idx], seen))
    /\ UNCHANGED <<vlm_symbols, text_symbols, symbols, leg_source>>
    /\ UNCHANGED notLegVars

\* _validate_and_clean returns the rows kept; the list of the VLM goes on to the
\* crops, the list of the text layer is complete
ValidateReturns ==
    /\ leg_pc = "clean"
    /\ sym_idx > Len(symbols)
    /\ symbols' = cleaned_symbols
    /\ leg_pc' = IF leg_source = "vlm" THEN "crop" ELSE "ids"
    /\ UNCHANGED <<vlm_symbols, text_symbols, sym_idx, cleaned_symbols, seen, leg_source>>
    /\ UNCHANGED notLegVars

\* phase 4: _crop_symbol_images sets image_path and image_filename of every symbol
CropSymbolImages ==
    /\ leg_pc = "crop"
    /\ leg_pc' = "ids"
    /\ UNCHANGED <<vlm_symbols, text_symbols, symbols, sym_idx, cleaned_symbols, seen,
                   leg_source>>
    /\ UNCHANGED notLegVars

\* _crop_symbol_images raises (the image or the PDF cannot be opened)
CropRaises ==
    /\ leg_pc = "crop"
    /\ leg_pc' = "fallback"
    /\ UNCHANGED <<vlm_symbols, text_symbols, symbols, sym_idx, cleaned_symbols, seen,
                   leg_source>>
    /\ UNCHANGED notLegVars

\* the except clause: _extract_text_fallback reads the rows of the text layer and
\* cleans them
ExtractTextFallback ==
    /\ leg_pc = "fallback"
    /\ text_symbols' \in ListsOf(TextSymbolPool, MaxTextSymbols)
    /\ symbols' = text_symbols'
    /\ sym_idx' = 1
    /\ cleaned_symbols' = <<>>
    /\ seen' = {}
    /\ leg_source' = "text"
    /\ leg_pc' = "clean"
    /\ vlm_symbols' = <<>>
    /\ UNCHANGED notLegVars

\* _extract_text_fallback raises (the PDF cannot be opened): no list is returned
TextFallbackRaises ==
    /\ leg_pc = "fallback"
    /\ leg_pc' = "raised"
    /\ UNCHANGED <<vlm_symbols, text_symbols, symbols, sym_idx, cleaned_symbols, seen,
                   leg_source>>
    /\ UNCHANGED notLegVars

\* sym["id"] = idx, from 1; the list is written and returned
AssignIds ==
    /\ leg_pc = "ids"
    /\ symbols' = [i \in 1..Len(symbols) |-> [symbols[i] EXCEPT !.id = i]]
    /\ leg_pc' = "done"
    /\ UNCHANGED <<vlm_symbols, text_symbols, sym_idx, cleaned_symbols, seen, leg_source>>
    /\ UNCHANGED notLegVars

LegNext ==
    \/ AnalyzeLegendWithVlm
    \/ AnalyzeLegendRaises
    \/ ValidateAndClean
    \/ ValidateReturns
    \/ CropSymbolImages
    \/ CropRaises
    \/ ExtractTextFallback
    \/ TextFallbackRaises
    \/ AssignIds

SpecLegend == LegInit /\ [][LegNext]_vars

\* ------------------------------------------- properties of the symbol list
\* the rows the list returned was made from
LegendRows == IF leg_source = "vlm" THEN vlm_symbols ELSE text_symbols

\* the description of a row as the list would carry it, with case folded
FoldedDescription(row) == Lower(Strip(OrElse(row.description, <<>>).s))

\* the entry is the row, cleaned
MadeFrom(entry, row) ==
    /\ entry.description = Strip(OrElse(row.description, <<>>).s)
    /\ entry.symbol_name = Strip(OrElse(row.symbol_name, <<>>).s)
    /\ entry.category = CategoryOf(OrElse(row.category, <<"O","T","H","E","R">>))

\* the row is the first of the input with its folded description
FirstOfItsDescription(rows, j) ==
    \A k \in 1..(j - 1) : FoldedDescription(rows[k]) # FoldedDescription(rows[j])

\* C12: in the list returned by extract_symbols_from_legend, from the VLM or from
\* the text layer, no two entries have the same description with case folded, and
\* an entry is made from the first row of the input with its folded description
C12_UniqueDescriptions ==
    leg_pc = "done" =>
        /\ \A i, j \in 1..Len(symbols) :
               Lower(symbols[i].description) = Lower(symbols[j].description) => i = j
        /\ \A i \in 1..Len(symbols) :
               \E j \in 1..Len(LegendRows) :
                   /\ MadeFrom(symbols[i], LegendRows[j])
                   /\ FirstOfItsDescription(LegendRows, j)

\* two rows with the same folded description and different names came in, and the
\* list returned carries the name of the first
C12_Witness ==
    /\ leg_pc = "done"
    /\ Len(LegendRows) = 2
    /\ FoldedDescription(LegendRows[1]) = FoldedDescription(LegendRows[2])
    /\ LegendRows[1].description # LegendRows[2].description
    /\ Len(symbols) = 1
    /\ symbols[1].symbol_name = Strip(OrElse(LegendRows[1].symbol_name, <<>>).s)
    /\ symbols[1].symbol_name # Strip(OrElse(LegendRows[2].symbol_name, <<>>).s)

\* C28 as stated: the text-layout fallback runs whenever the VLM phase raises or
\* returns no usable rows (an empty array, or rows that validation drops all); the
\* list of the VLM is returned only when at least one usable row is left.
C28_AsStated == (leg_pc = "done" /\ leg_source = "vlm") => symbols # <<>>

\* --------------------------------------------------- chat and execute_query
\* the texts of the model write ' for the backquote
\* the positions behind a '''sql in the text
SqlFenceEnds(text) == Lit(1..(Len(text) + 1), text, <<"'","'","'","s","q","l">>)

\* the positions of a ''' at or behind a position
FencesFrom(text, from) == {c \in from..Len(text) : Lit({c}, text, <<"'","'","'">>) # {}}

\* re.search(the pattern of chat, llm_response, re.DOTALL)
SqlMatch(text) == {a \in SqlFenceEnds(text) : FencesFrom(text, a) # {}}

SqlBehind(text, a) == Strip(SubSeq(text, a, FirstOf(FencesFrom(text, a)) - 1))

\* sql_match.group(1).strip(): the leftmost '''sql with a ''' behind it, the
\* text up to the nearest '''
SqlQueryOf(text) == SqlBehind(text, FirstOf(SqlMatch(text)))

\* the safety check: sql_query.upper().startswith("SELECT")
IsSelectOnly_Any(sql_query) == TRUE

IsSelectOnly(sql_query) == StartsWith(Upper(sql_query), <<"S","E","L","E","C","T">>)

\* the first word of a text
FirstWord(s) == SubSeq(s, 1, FirstOf({i \in 0..Len(s) : i = Len(s) \/ s[i + 1] = " "}))

\* a statement ends and another text follows
HasSecondStatement(s) ==
    \E i \in 1..Len(s) : s[i] = ";" /\ \E j \in (i + 1)..Len(s) : s[j] # " "

KindOfWord(w) ==
    CASE w = <<"S","E","L","E","C","T">> -> "select"
      [] w = <<"W","I","T","H">> -> "select"
      [] w \in {<<"I","N","S","E","R","T">>, <<"U","P","D","A","T","E">>, <<"D","E","L","E","T","E">>} -> "dml"
      [] w = <<"D","R","O","P">> -> "ddl"
      [] OTHER -> "invalid"

\* what sqlite takes the text for
StatementKind(sql) ==
    IF HasSecondStatement(Strip(sql)) THEN "script"
    ELSE KindOfWord(FirstWord(Upper(Strip(sql))))

\* the word TABLE or FROM or INTO or UPDATE, then the name of the table
TableOf(sql) == IF Lit(1..(Len(sql) + 1), Lower(sql), <<"v","a","l","v","e","s">>) # {} THEN "valves" ELSE "none"

SqliteRaises(store) == [raised |-> TRUE, rows |-> <<>>, store |-> store, ran |-> FALSE]

SqliteRan(rows, store) == [raised |-> FALSE, rows |-> rows, store |-> store, ran |-> TRUE]

\* DROP TABLE
WithoutTable(store, table) == [k \in DOMAIN store \ {table} |-> store[k]]

\* cursor = await db.execute(sql, params); rows = await cursor.fetchall(), on a
\* connection that is closed without a commit: a statement that changes rows runs in
\* a transaction that is rolled back at the close, DROP TABLE runs outside one
SqliteStatement(kind, table, store) ==
    CASE kind \in {"script", "invalid"} -> SqliteRaises(store)
      [] table \notin DOMAIN store -> SqliteRaises(store)
      [] kind = "select" -> SqliteRan(store[table], store)
      [] kind = "dml" -> SqliteRan(<<>>, store)
      [] OTHER -> SqliteRan(<<>>, WithoutTable(store, table))

execute_query(sql, store) == SqliteStatement(StatementKind(sql), TableOf(sql), store)

\* query_result[:100]
DataLimit == 100

FirstRows(rows, n) == SubSeq(rows, 1, IF Len(rows) < n THEN Len(rows) ELSE n)

Reply(sql_query, response, data) ==
    [raised |-> FALSE, sql_query |-> sql_query, response |-> response, data |-> data]

\* re.search raises on a response that is no text
NoReply == [raised |-> TRUE, sql_query |-> Null, response |-> "none", data |-> Null]

\* the reply once the statement has gone through execute_query
ReplyAfter(sql_query, ran) ==
    IF ran.raised THEN Reply(Str(sql_query), "sql_error", Null)
    ELSE Reply(Str(sql_query), "summary", List(FirstRows(ran.rows, DataLimit)))

\* the reply of chat to a response with a statement in it
ReplyToSql(sql_query, store) ==
    IF ~IsSelectOnly(sql_query) THEN Reply(Str(sql_query), "select_only", Null)
    ELSE ReplyAfter(sql_query, execute_query(sql_query, store))

\* the reply of chat
ReplyTo(response, store) ==
    IF response.t # "str" THEN NoReply
    ELSE IF SqlMatch(response.s) = {} THEN Reply(Null, "llm_response", Null)
    ELSE ReplyToSql(SqlQueryOf(response.s), store)

\* whether chat hands the statement of the response to execute_query
Executes(response) ==
    /\ response.t = "str"
    /\ SqlMatch(response.s) # {}
    /\ IsSelectOnly(SqlQueryOf(response.s))

ValveRow(tag) == [tag |-> tag]

\* the tables a request may find
StorePool ==
    { [valves |-> <<>>],
      [valves |-> <<ValveRow(1)>>],
      [valves |-> <<ValveRow(1), ValveRow(2)>>] }

\* the texts llm_chat may return
LlmResponsePool ==
    { Str(<<"'","'","'","s","q","l"," ","S","E","L","E","C","T"," ","*"," ","F","R","O","M"," ","v","a","l","v","e","s"," ","'","'","'">>),
      Str(<<"'","'","'","s","q","l"," ","s","e","l","e","c","t"," ","t","a","g"," ","f","r","o","m"," ","v","a","l","v","e","s",";"," ","'","'","'">>),
      Str(<<"'","'","'","s","q","l"," ","D","E","L","E","T","E"," ","F","R","O","M"," ","v","a","l","v","e","s"," ","'","'","'">>),
      Str(<<"'","'","'","s","q","l"," ","U","P","D","A","T","E"," ","v","a","l","v","e","s"," ","S","E","T"," ","t","a","g"," ","="," ","0"," ","'","'","'">>),
      Str(<<"'","'","'","s","q","l"," ","d","r","o","p"," ","t","a","b","l","e"," ","v","a","l","v","e","s"," ","'","'","'">>),
      Str(<<"'","'","'","s","q","l"," ","S","E","L","E","C","T"," ","1"," ","F","R","O","M"," ","v","a","l","v","e","s",";"," ","D","R","O","P"," ","T","A","B","L","E"," ","v","a","l","v","e","s"," ","'","'","'">>),
      Str(<<"'","'","'","s","q","l"," ","S","E","L","E","C","T","E","D"," ","F","R","O","M"," ","v","a","l","v","e","s"," ","'","'","'">>),
      Str(<<"'","'","'","s","q","l"," ","W","I","T","H"," ","v"," ","A","S"," ","(","S","E","L","E","C","T"," ","*"," ","F","R","O","M"," ","v","a","l","v","e","s",")"," ","S","E","L","E","C","T"," ","*"," ","F","R","O","M"," ","v"," ","'","'","'">>),
      Str(<<"'","'","'","s","q","l"," ","'","'","'">>),
      Str(<<"'","'","'","S","Q","L"," ","D","E","L","E","T","E"," ","F","R","O","M"," ","v","a","l","v","e","s"," ","'","'","'">>),
      Str(<<"D","E","L","E","T","E"," ","F","R","O","M"," ","v","a","l","v","e","s">>),
      Null }

ChtStart ==
    /\ chat_store \in StorePool
    /\ chat_store0 = chat_store
    /\ llm_response = Null
    /\ chat_executed = <<>>
    /\ chat_replies = <<>>
    /\ chat_pc = "ask"

ChtInit == ChtStart /\ IdleBut("cht")

\* chat up to the first llm_chat, which returns a text (its own message when no
\* service answers) or nothing
LlmChat ==
    /\ chat_pc = "ask"
    /\ Len(chat_replies) < MaxChats
    /\ llm_response' \in LlmResponsePool
    /\ chat_pc' = "answer"
    /\ UNCHANGED <<chat_store, chat_store0, chat_executed, chat_replies>>
    /\ UNCHANGED notChtVars

\* the response carries a statement that passes the safety check: execute_query,
\* then the reply
ExecuteQuery ==
    /\ chat_pc = "answer"
    /\ Executes(llm_response)
    /\ chat_executed' = IF execute_query(SqlQueryOf(llm_response.s), chat_store).ran
                        THEN Append(chat_executed, SqlQueryOf(llm_response.s))
                        ELSE chat_executed
    /\ chat_store' = execute_query(SqlQueryOf(llm_response.s), chat_store).store
    /\ chat_replies' = Append(chat_replies, ReplyTo(llm_response, chat_store))
    /\ chat_pc' = "ask"
    /\ UNCHANGED <<chat_store0, llm_response>>
    /\ UNCHANGED notChtVars

\* the response carries no statement, or one the safety check stops, or it is no
\* text: the reply, with nothing run
ReplyWithoutQuery ==
    /\ chat_pc = "answer"
    /\ ~Executes(llm_response)
    /\ chat_replies' = Append(chat_replies, ReplyTo(llm_response, chat_store))
    /\ chat_pc' = "ask"
    /\ UNCHANGED <<chat_store, chat_store0, chat_executed, llm_response>>
    /\ UNCHANGED notChtVars

ChtNext ==
    \/ LlmChat
    \/ ExecuteQuery
    \/ ReplyWithoutQuery

SpecChat == ChtInit /\ [][ChtNext]_vars

\* ---------------------------------------------------- properties of the chat
\* the statement of a reply is a SELECT statement
IsSelectStatement(reply) ==
    reply.sql_query.t = "str" /\ StatementKind(reply.sql_query.s) = "select"

\* C13: sqlite runs a statement of the language model only when it is a SELECT
\* statement; a request with any other statement is answered with a message in
\* place of rows (for a text that does not begin with SELECT, the message that
\* only SELECT is allowed) and the statement is not run; the tables after every
\* request are the tables before it
C13_SelectOnly ==
    /\ \A i \in 1..Len(chat_executed) : StatementKind(chat_executed[i]) = "select"
    /\ \A i \in 1..Len(chat_replies) :
           chat_replies[i].sql_query.t = "str" /\ ~IsSelectStatement(chat_replies[i]) =>
               /\ chat_replies[i].data = Null
               /\ chat_replies[i].response \in {"select_only", "sql_error"}
               /\ ~StartsWith(Upper(chat_replies[i].sql_query.s), <<"S","E","L","E","C","T">>) =>
                      chat_replies[i].response = "select_only"
               /\ \A k \in 1..Len(chat_executed) :
                      chat_executed[k] # chat_replies[i].sql_query.s
    /\ chat_store = chat_store0

\* a DELETE was refused and a SELECT was run and answered with the rows of the table
C13_Witness ==
    /\ Len(chat_replies) = 2
    /\ StatementKind(chat_replies[1].sql_query.s) = "dml"
    /\ chat_replies[1].response = "select_only"
    /\ chat_replies[2].response = "summary"
    /\ chat_replies[2].data = List(chat_store0["valves"])
    /\ chat_store0["valves"] # <<>>
    /\ chat_executed = <<chat_replies[2].sql_query.s>>

\* ------------------------------------------------------- extract_pipe_bom
\* the keywords of a cover page; the two syllables of the Korean keyword are
\* written in Latin letters, one element each
COVER_KEYWORDS ==
    {<<"I","N","D","E","X">>, <<"T","A","B","L","E"," ","O","F"," ","C","O","N","T","E","N","T","S">>, <<"mog", "cha">>, <<"C","O","V","E","R">>, <<"D","R","A","W","I","N","G"," ","L","I","S","T">>}

\* the end of the longest run of at least `least` and at most `most` characters of a
\* kind from position p on, 0 when there is none: a greedy x{least,most}
RECURSIVE GreedyEnd(_, _, _, _, _, _)
GreedyEnd(s, p, kind, least, most, n) ==
    IF p = 0 THEN 0
    ELSE IF n < most /\ p + n <= Len(s) /\ s[p + n] \in kind
         THEN GreedyEnd(s, p, kind, least, most, n + 1)
         ELSE IF n >= least THEN p + n ELSE 0

Digits == Range(DigitChars)

Letters == Range(UpperAlpha)

\* an optional group: where it ends when it matches, else where it began
Optional(p, end) == IF end = 0 THEN p ELSE end

\* a literal at position p: the position behind it, else 0
LitEnd(s, p, w) ==
    IF p # 0 /\ p + Len(w) - 1 <= Len(s) /\ SubSeq(s, p, p + Len(w) - 1) = w
    THEN p + Len(w) ELSE 0

\* (?:-\d+)?(?:[A-Z])? behind the digits of a piece
PieceTail(s, p) ==
    Optional(Optional(p, GreedyEnd(s, LitEnd(s, p, <<"-">>), Digits, 1, Len(s), 0)),
             GreedyEnd(s, Optional(p, GreedyEnd(s, LitEnd(s, p, <<"-">>), Digits, 1, Len(s), 0)),
                       Letters, 1, 1, 0))

\* [A-Z]{1,3}\d{3,5} from position p on: the letters are as many as stand before
\* the digits
PieceHead(s, p, letters) ==
    IF letters = 0 THEN 0 ELSE GreedyEnd(s, letters, Digits, 3, 5, 0)

\* PIPE_PIECE_PATTERN at position p: the position behind the match, else 0
PipePieceEnd(s, p) ==
    IF PieceHead(s, p, GreedyEnd(s, p, Letters, 1, 3, 0)) = 0 THEN 0
    ELSE PieceTail(s, PieceHead(s, p, GreedyEnd(s, p, Letters, 1, 3, 0)))

\* WELD_PATTERN at position p
WeldEnd(s, p) ==
    IF LitEnd(s, p, <<"F","F","W">>) # 0
    THEN GreedyEnd(s, LitEnd(s, p, <<"F","F","W">>), Digits, 1, Len(s), 0)
    ELSE GreedyEnd(s, LitEnd(s, p, <<"W">>), Digits, 1, Len(s), 0)

\* the digits of DIMENSION_PATTERN at position p; what follows them is not kept
DimensionEnd(s, p) == GreedyEnd(s, p, Digits, 2, 5, 0)

\* \s*(?:mm)? behind the digits: where the next search starts
DimensionTail(s, p) ==
    Optional(GreedyEnd(s, p, {" "}, 0, Len(s), 0),
             LitEnd(s, GreedyEnd(s, p, {" "}, 0, Len(s), 0), <<"m","m">>))

Alnums == Letters \cup Digits \cup Range(LowerAlpha)

\* REVISION_PATTERN at position p, with re.IGNORECASE
RevisionEnd(s, p) ==
    GreedyEnd(s, GreedyEnd(s, LitEnd(Upper(s), p, <<"R","E","V">>), {".", " "}, 0, Len(s), 0),
              Alnums, 1, Len(s), 0)

\* f"REV.{rev_match.group(1)}": the match without REV and the points and blanks
\* behind it
RevisionNote(match) ==
    <<"R","E","V",".">> \o SubSeq(match, GreedyEnd(match, 4, {".", " "}, 0, Len(match), 0), Len(match))

\* where a match of a pattern at position p ends, 0 when there is none
MatchEnd(pattern, s, p) ==
    CASE pattern = "PIPE_PIECE_PATTERN" -> PipePieceEnd(s, p)
      [] pattern = "WELD_PATTERN" -> WeldEnd(s, p)
      [] pattern = "REVISION_PATTERN" -> RevisionEnd(s, p)
      [] OTHER -> DimensionEnd(s, p)

\* where the search goes on behind a match
SearchFrom(pattern, s, end) ==
    IF pattern = "DIMENSION_PATTERN" THEN DimensionTail(s, end) ELSE end

\* pattern.findall(text): the matches from left to right, none overlapping
RECURSIVE FindAll(_, _, _)
FindAll(pattern, s, p) ==
    IF p > Len(s) THEN <<>>
    ELSE IF MatchEnd(pattern, s, p) = 0 THEN FindAll(pattern, s, p + 1)
    ELSE <<SubSeq(s, p, MatchEnd(pattern, s, p) - 1)>>
             \o FindAll(pattern, s, SearchFrom(pattern, s, MatchEnd(pattern, s, p)))

\* len(p) >= 4 and any(c.isdigit() for c in p) and not p.startswith(("REV", "DWG",
\* "ISO", "PAGE"))
IsValidPiece(piece) ==
    /\ Len(piece) >= 4
    /\ \E i \in 1..Len(piece) : IsDigit(piece[i])
    /\ \A w \in {<<"R","E","V">>, <<"D","W","G">>, <<"I","S","O">>, <<"P","A","G","E">>} : ~StartsWith(piece, w)

ValidPieces(text) == SelectSeq(FindAll("PIPE_PIECE_PATTERN", text, 1), IsValidPiece)

_is_cover_page(text) ==
    /\ ValidPieces(text) = <<>>
    /\ \E kw \in COVER_KEYWORDS : Contains(kw, Upper(text))

\* list(dict.fromkeys(xs)): the first of every value, in order
RECURSIVE FromKeys(_)
FromKeys(xs) ==
    IF xs = <<>> THEN <<>>
    ELSE IF \E k \in 1..(Len(xs) - 1) : xs[k] = xs[Len(xs)]
         THEN FromKeys(SubSeq(xs, 1, Len(xs) - 1))
         ELSE Append(FromKeys(SubSeq(xs, 1, Len(xs) - 1)), xs[Len(xs)])

\* the dimension range
DimensionMin == 100

DimensionMax == 30000

InDimensionRange(digits) ==
    DigitsValue(digits) >= DimensionMin /\ DigitsValue(digits) <= DimensionMax

DimensionsOf(text) ==
    [i \in 1..Len(SelectSeq(FindAll("DIMENSION_PATTERN", text, 1), InDimensionRange))
        |-> DigitsValue(SelectSeq(FindAll("DIMENSION_PATTERN", text, 1),
                                  InDimensionRange)[i])]

\* the blocks of a page: the model has one block to a page, its text
TableTextOf(text) == IF Len(Strip(text)) > 2 THEN <<Strip(text)>> ELSE <<>>

\* page_data as it is set up, before anything is read from the text
PageData(page_num, is_cover) ==
    [page |-> page_num + 1, pipe_pieces |-> <<>>, weld_count |-> 0, weld_items |-> <<>>,
     dimensions_mm |-> <<>>, other_dims |-> <<>>, has_loose |-> FALSE,
     revision_notes |-> <<>>, title_block |-> <<>>, table_text |-> <<>>,
     is_cover |-> is_cover]

\* page_data of a page that is read
ContentPage(page_num, text) ==
    [PageData(page_num, FALSE) EXCEPT
        !.pipe_pieces = FromKeys(ValidPieces(text)),
        !.weld_items = FindAll("WELD_PATTERN", text, 1),
        !.weld_count = Len(FindAll("WELD_PATTERN", text, 1)),
        !.dimensions_mm = DimensionsOf(text),
        !.has_loose = Contains(<<"L","O","O","S","E">>, Upper(text)),
        !.revision_notes = [i \in 1..Len(FindAll("REVISION_PATTERN", text, 1)) |->
                               RevisionNote(FindAll("REVISION_PATTERN", text, 1)[i])],
        !.table_text = TableTextOf(text)]

\* is_cover = _is_cover_page(text) if page_num == 0 else False
IsCover(page_num, text) == IF page_num = 0 THEN _is_cover_page(text) ELSE FALSE

\* the texts of the pages the model draws from
PageTextPool ==
    { <<"I","N","D","E","X">>,
      <<"D","R","A","W","I","N","G"," ","L","I","S","T"," ","W","1"," ","1","2","0","0">>,
      <<"A","B","1","2","3"," ","W","1"," ","F","F","W","2"," ","A","B","1","2","3"," ","7","3","6"," ","m","m"," ","L","O","O","S","E"," ","r","e","v","."," ","b","2">>,
      <<"C","O","V","E","R"," ","C","D","4","5","6","7","-","1","A"," ","9","9"," ","3","1","0","0","0">>,
      <<"T","a","b","l","e"," ","o","f"," ","c","o","n","t","e","n","t","s"," ","R","E","V","1","2","3","4">>,
      <<"mog", "cha">>,
      <<>> }

ExtStart ==
    /\ ext_doc \in UNION {[1..n -> PageTextPool] : n \in 1..MaxPages}
    /\ pages_data = <<>>
    /\ ext_pc = "open"

ExtInit == ExtStart /\ IdleBut("ext")

\* doc = fitz.open(pdf_path)
FitzOpen ==
    /\ ext_pc = "open"
    /\ ext_pc' = "pages"
    /\ UNCHANGED <<ext_doc, pages_data>>
    /\ UNCHANGED notExtVars

FitzOpenRaises ==
    /\ ext_pc = "open"
    /\ ext_pc' = "raised"
    /\ UNCHANGED <<ext_doc, pages_data>>
    /\ UNCHANGED notExtVars

\* one iteration of `for page_num in range(total_pages)`, on a cover page
ExtractCoverPage ==
    /\ ext_pc = "pages"
    /\ Len(pages_data) < Len(ext_doc)
    /\ IsCover(Len(pages_data), ext_doc[Len(pages_data) + 1])
    /\ pages_data' = Append(pages_data, PageData(Len(pages_data), TRUE))
    /\ UNCHANGED <<ext_doc, ext_pc>>
    /\ UNCHANGED notExtVars

\* one iteration, on any other page
ExtractContentPage ==
    /\ ext_pc = "pages"
    /\ Len(pages_data) < Len(ext_doc)
    /\ ~IsCover(Len(pages_data), ext_doc[Len(pages_data) + 1])
    /\ pages_data' = Append(pages_data,
                            ContentPage(Len(pages_data), ext_doc[Len(pages_data) + 1]))
    /\ UNCHANGED <<ext_doc, ext_pc>>
    /\ UNCHANGED notExtVars

\* doc.close(); return pages_data
ExtractReturns ==
    /\ ext_pc = "pages"
    /\ Len(pages_data) = Len(ext_doc)
    /\ ext_pc' = "done"
    /\ UNCHANGED <<ext_doc, pages_data>>
    /\ UNCHANGED notExtVars

ExtNext ==
    \/ FitzOpen
    \/ FitzOpenRaises
    \/ ExtractCoverPage
    \/ ExtractContentPage
    \/ ExtractReturns

SpecExtract == ExtInit /\ [][ExtNext]_vars

\* ------------------------------------------- properties of the text records
\* pipe_pieces, weld_items, dimensions_mm, other_dims, revision_notes, title_block
\* and table_text are empty
ListFieldsEmpty(r) ==
    /\ r.pipe_pieces = <<>>
    /\ r.weld_items = <<>>
    /\ r.dimensions_mm = <<>>
    /\ r.other_dims = <<>>
    /\ r.revision_notes = <<>>
    /\ r.title_block = <<>>
    /\ r.table_text = <<>>

\* C15: the record of every page without a valid pipe piece and with a cover
\* keyword, wherever the page stands in the PDF, has is_cover true and all its
\* list fields empty
C15_AsStated ==
    ext_pc = "done" =>
        \A i \in 1..Len(ext_doc) :
            _is_cover_page(ext_doc[i]) => pages_data[i].is_cover /\ ListFieldsEmpty(pages_data[i])

\* ------------------------------- compare_all_pages and the comparison block
\* a page record: its "page", whether it has a bom_table or components, and its
\* "comparison" (no element: the record has no such key)
PageRecord(page, comparable) == [page |-> page, comparable |-> comparable, comparison |-> <<>>]

\* what compare_single_page returns for the record at an index
Comparison(page, index) == [page |-> page, error |-> FALSE, index |-> index]

\* what the except clause of compare_all_pages appends: no items, a summary of
\* zeros, and "error"
FailedComparison(page, index) == [page |-> page, error |-> TRUE, index |-> index]

\* the "page" of a record is whatever the VLM response said it is
RecStart ==
    /\ vlm_results \in UNION {[1..n -> {PageRecord(page, comparable) :
                                         page \in 1..MaxPages, comparable \in BOOLEAN}] :
                              n \in 1..MaxPages}
    /\ comparison_results = <<>>
    /\ rec_idx = 1
    /\ failed_pages = {}
    /\ rec_pc = "compare"

RecInit == RecStart /\ IdleBut("rec")

\* one iteration of `for page_data in vlm_data`: a record without a BOM table and
\* without components is passed over
PassOverPage ==
    /\ rec_pc = "compare"
    /\ rec_idx <= Len(vlm_results)
    /\ ~vlm_results[rec_idx].comparable
    /\ rec_idx' = rec_idx + 1
    /\ UNCHANGED <<vlm_results, comparison_results, failed_pages, rec_pc>>
    /\ UNCHANGED notRecVars

\* one iteration: compare_single_page returns
ComparePage ==
    /\ rec_pc = "compare"
    /\ rec_idx <= Len(vlm_results)
    /\ vlm_results[rec_idx].comparable
    /\ comparison_results' =
           Append(comparison_results, Comparison(vlm_results[rec_idx].page, rec_idx))
    /\ rec_idx' = rec_idx + 1
    /\ UNCHANGED <<vlm_results, failed_pages, rec_pc>>
    /\ UNCHANGED notRecVars

\* one iteration: compare_single_page raises; a warning is logged
ComparePageRaises ==
    /\ rec_pc = "compare"
    /\ rec_idx <= Len(vlm_results)
    /\ vlm_results[rec_idx].comparable
    /\ comparison_results' =
           Append(comparison_results, FailedComparison(vlm_results[rec_idx].page, rec_idx))
    /\ failed_pages' = failed_pages \cup {rec_idx}
    /\ rec_idx' = rec_idx + 1
    /\ UNCHANGED <<vlm_results, rec_pc>>
    /\ UNCHANGED notRecVars

\* compare_all_pages returns
CompareAllPagesReturns ==
    /\ rec_pc = "compare"
    /\ rec_idx > Len(vlm_results)
    /\ rec_pc' = "attach"
    /\ UNCHANGED <<vlm_results, comparison_results, rec_idx, failed_pages>>
    /\ UNCHANGED notRecVars

\* the record a comparison is put on: the first with its "page"
FirstWithPage(records, page) == FirstOf({i \in 1..Len(records) : records[i].page = page})

\* the comparisons put on the record at an index, in order: the last one stays
PutOn(records, comps, i) ==
    SelectSeq(comps, LAMBDA comp : FirstWithPage(records, comp.page) = i)

LastComparison(comps) == IF comps = <<>> THEN <<>> ELSE <<comps[Len(comps)]>>

\* for comp in comparison_results: for r in vlm_results: if r.get("page") ==
\* comp["page"]: r["comparison"] = comp; break
AttachComparisons ==
    /\ rec_pc = "attach"
    /\ vlm_results' = [i \in 1..Len(vlm_results) |->
           IF PutOn(vlm_results, comparison_results, i) = <<>> THEN vlm_results[i]
           ELSE [vlm_results[i] EXCEPT
                    !.comparison = LastComparison(PutOn(vlm_results, comparison_results, i))]]
    /\ rec_pc' = "dump"
    /\ UNCHANGED <<comparison_results, rec_idx, failed_pages>>
    /\ UNCHANGED notRecVars

\* bom_comparison.json is written
DumpComparison ==
    /\ rec_pc = "dump"
    /\ rec_pc' = "done"
    /\ UNCHANGED <<vlm_results, comparison_results, rec_idx, failed_pages>>
    /\ UNCHANGED notRecVars

\* the write raises: a warning is logged, the records stay as they are
DumpComparisonRaises ==
    /\ rec_pc = "dump"
    /\ rec_pc' = "logged"
    /\ UNCHANGED <<vlm_results, comparison_results, rec_idx, failed_pages>>
    /\ UNCHANGED notRecVars

RecNext ==
    \/ PassOverPage
    \/ ComparePage
    \/ ComparePageRaises
    \/ CompareAllPagesReturns
    \/ AttachComparisons
    \/ DumpComparison
    \/ DumpComparisonRaises

SpecReconcile == RecInit /\ [][RecNext]_vars

\* ------------------------------------- properties of the comparison block
\* C18: when compare_single_page raised on a page, the record of the page is
\* emitted and has no comparison on it, and every other page with a BOM table or
\* components carries the comparison made of it
C18_AsStated ==
    rec_pc \in {"done", "logged"} =>
        \A i \in 1..Len(vlm_results) :
            IF i \in failed_pages THEN vlm_results[i].comparison = <<>>
            ELSE vlm_results[i].comparable =>
                     vlm_results[i].comparison = <<Comparison(vlm_results[i].page, i)>>

\* ------------------------------------------------------------- llm_chat
\* the providers in the order llm_chat tries them
Providers == <<"openai", "anthropic", "gemini">>

\* the message returned when no provider answered (written here in Latin letters)
ApologyText == Str(<<"A","I"," ","s","e","o","b","i","s","e","u","e"," ","y","e","o","n","g","y","e","o","l","h","a","l"," ","s","u"," ","e","o","p","s","s","e","u","m","n","i","d","a","."," ","A","P","I"," ","k","i","r","e","u","l"," ","h","w","a","g","i","n","h","a","e","j","u","s","e","y","o",".">>)

\* what a provider may answer: a text, an empty text, no content (None)
ProviderResponses == {Str(<<"'","'","'","s","q","l"," ","S","E","L","E","C","T"," ","*"," ","F","R","O","M"," ","v","a","l","v","e","s"," ","'","'","'">>), Str(<<>>), Null}

\* the exceptions of a call the model draws from
ProviderErrors == {"AuthenticationError", "RateLimitError", "APIConnectionError"}

Call(provider, outcome, response) ==
    [provider |-> provider, outcome |-> outcome, response |-> response]

\* the keys of the configuration, read when the module is imported
LlmStart ==
    /\ llm_keys \in SUBSET Range(Providers)
    /\ llm_at = 1
    /\ llm_log = <<>>
    /\ llm_result = <<>>

LlmInit == LlmStart /\ IdleBut("llm")

Running == llm_result = <<>> /\ llm_at <= Len(Providers)

\* `if <KEY>:` is false: the provider is passed over
SkipProvider ==
    /\ Running
    /\ Providers[llm_at] \notin llm_keys
    /\ llm_at' = llm_at + 1
    /\ UNCHANGED <<llm_keys, llm_log, llm_result>>
    /\ UNCHANGED notLlmVars

\* the call returns and llm_chat returns the content of the response
ProviderReturns ==
    /\ Running
    /\ Providers[llm_at] \in llm_keys
    /\ \E response \in ProviderResponses :
          /\ llm_log' = Append(llm_log, Call(Providers[llm_at], "returned", response))
          /\ llm_result' = <<response>>
    /\ UNCHANGED <<llm_keys, llm_at>>
    /\ UNCHANGED notLlmVars

\* ProviderFails with llm_chat giving up at the first failure
ProviderFails_GivesUp ==
    /\ Running
    /\ Providers[llm_at] \in llm_keys
    /\ \E error \in ProviderErrors :
          llm_log' = Append(llm_log, Call(Providers[llm_at], error, Null))
    /\ llm_at' = Len(Providers) + 1
    /\ UNCHANGED <<llm_keys, llm_result>>
    /\ UNCHANGED notLlmVars

\* the import, the call or the reading of the response raises: the except clause
\* logs a warning and llm_chat goes on to the next provider
ProviderFails ==
    /\ Running
    /\ Providers[llm_at] \in llm_keys
    /\ \E error \in ProviderErrors :
          llm_log' = Append(llm_log, Call(Providers[llm_at], error, Null))
    /\ llm_at' = llm_at + 1
    /\ UNCHANGED <<llm_keys, llm_result>>
    /\ UNCHANGED notLlmVars

\* behind the last provider: the fixed message is returned
ReturnApology ==
    /\ llm_result = <<>>
    /\ llm_at > Len(Providers)
    /\ llm_result' = <<ApologyText>>
    /\ UNCHANGED <<llm_keys, llm_at, llm_log>>
    /\ UNCHANGED notLlmVars

LlmNext ==
    \/ SkipProvider
    \/ ProviderReturns
    \/ ProviderFails
    \/ ReturnApology

SpecLlm == LlmInit /\ [][LlmNext]_vars

\* ------------------------------------------------- properties of llm_chat
\* the place of a provider in the order of preference OpenAI, Anthropic, Gemini
Preference(provider) ==
    IF provider = "openai" THEN 1 ELSE IF provider = "anthropic" THEN 2 ELSE 3

\* the calls that returned
Succeeded == {i \in 1..Len(llm_log) : llm_log[i].outcome = "returned"}

\* the provider was called, and the call failed, before call i
FailedBefore(provider, i) ==
    \E j \in 1..(i - 1) : llm_log[j].provider = provider /\ llm_log[j].outcome # "returned"

\* C29: llm_chat calls the providers in the order OpenAI, Anthropic, Gemini and
\* never one without a configured key; a provider is called only when every
\* configured provider before it in the order has failed; the value returned is the
\* response of the first call that did not fail, after which no call is made; and
\* the fixed message is returned if and only if no configured provider succeeded,
\* every configured provider having been called and having failed
C29_ProviderFallback ==
    /\ \A i \in 1..Len(llm_log) :
          /\ llm_log[i].provider \in llm_keys
          /\ \A j \in 1..(i - 1) :
                 Preference(llm_log[j].provider) < Preference(llm_log[i].provider)
          /\ \A q \in llm_keys :
                 Preference(q) < Preference(llm_log[i].provider) => FailedBefore(q, i)
    /\ Succeeded \subseteq {Len(llm_log)}
    /\ Succeeded # {} => llm_result = <<llm_log[Len(llm_log)].response>>
    /\ (llm_result # <<>> /\ Succeeded = {}) =>
           /\ llm_result = <<ApologyText>>
           /\ \A q \in llm_keys : FailedBefore(q, Len(llm_log) + 1)
    /\ llm_result = <<ApologyText>> => Succeeded = {}

\* OpenAI failed, Anthropic has no key, and the response of Gemini is returned
C29_Witness ==
    /\ llm_keys = {"openai", "gemini"}
    /\ Len(llm_log) = 2
    /\ llm_log[1].provider = "openai" /\ llm_log[1].outcome = "RateLimitError"
    /\ llm_log[2].provider = "gemini" /\ llm_log[2].outcome = "returned"
    /\ llm_result = <<llm_log[2].response>>
    /\ llm_result # <<ApologyText>>

\* ------------------------------------------- upload_file and _process_file
\* str(e)[:200]
ErrorLimit == 200

\* the lengths of str(e) the model draws from
MessageLengths == {0, ErrorLimit, ErrorLimit + 1}

Truncated(len) == IF len > ErrorLimit THEN ErrorLimit ELSE len

\* a step of _process_file and the try block it stands in: "outer" for the try of
\* the function, else the inner try
Step(name, block) == [name |-> name, block |-> block]

DxfSteps == <<Step("process_dxf", "outer"), Step("save_dimensions", "outer")>>

LegendSteps ==
    <<Step("extract_symbols_from_legend", "legend"), Step("save_symbols", "legend"),
      Step("cache_symbol_ref", "legend")>>

PidSteps ==
    <<Step("extract_valves", "outer"), Step("save_valves", "outer"),
      Step("generate_valve_excel", "outer"), Step("render_pid_pages", "outer"),
      Step("dump_valve_data", "outer")>>
    \o LegendSteps
    \o <<Step("status_vlm_analyzing", "pid_vlm"), Step("analyze_pid_pages", "pid_vlm"),
         Step("merge_regex_and_vlm", "pid_vlm"), Step("save_pid_analysis", "pid_vlm"),
         Step("generate_pid_analysis_excel", "pid_vlm"),
         Step("dump_pid_vlm_analysis", "pid_vlm")>>

\* PipeBomSteps with the reconciliation ahead of the VLM analysis
PipeBomSteps_CompareFirst ==
    <<Step("extract_pipe_bom", "outer"), Step("save_pipe_bom", "outer"),
      Step("generate_pipe_bom_excel", "outer"), Step("render_bom_pages", "outer"),
      Step("dump_pipe_bom_data", "outer"), Step("status_vlm_analyzing", "outer"),
      Step("compare_all_pages", "compare"), Step("attach_comparison", "compare"),
      Step("dump_bom_comparison", "compare"),
      Step("process_bom_with_vlm", "bom_vlm"), Step("save_vlm_bom", "bom_vlm"),
      Step("dump_vlm_bom_data", "bom_vlm"), Step("generate_vlm_bom_excel", "bom_vlm")>>

PipeBomSteps ==
    <<Step("extract_pipe_bom", "outer"), Step("save_pipe_bom", "outer"),
      Step("generate_pipe_bom_excel", "outer"), Step("render_bom_pages", "outer"),
      Step("dump_pipe_bom_data", "outer"), Step("status_vlm_analyzing", "outer"),
      Step("process_bom_with_vlm", "bom_vlm"), Step("save_vlm_bom", "bom_vlm"),
      Step("dump_vlm_bom_data", "bom_vlm"), Step("compare_all_pages", "compare"),
      Step("attach_comparison", "compare"), Step("dump_bom_comparison", "compare"),
      Step("generate_vlm_bom_excel", "bom_vlm")>>

\* a generic PDF: the valve branch when valves were found, the BOM branch when a
\* page has pipe pieces
PdfSteps(has_valves, has_pieces) ==
    <<Step("extract_valves", "outer"), Step("extract_pipe_bom", "outer")>>
    \o (IF has_valves
        THEN <<Step("save_valves", "outer"), Step("generate_valve_excel", "outer"),
               Step("render_pid_pages", "outer")>> \o LegendSteps
        ELSE <<>>)
    \o (IF has_pieces
        THEN <<Step("save_pipe_bom", "outer"), Step("generate_pipe_bom_excel", "outer")>>
        ELSE <<>>)

StepsOfKind(kind, has_valves, has_pieces) ==
    IF kind = "dxf" THEN DxfSteps
    ELSE IF kind = "pid" THEN PidSteps
    ELSE IF kind = "pipe_bom" THEN PipeBomSteps
    ELSE PdfSteps(has_valves, has_pieces)

\* the steps inside the try, whose last is update_session_status(.., "completed")
StepsOf(kind, has_valves, has_pieces) ==
    StepsOfKind(kind, has_valves, has_pieces) \o <<Step("status_completed", "outer")>>

\* the blocks an except clause of a block covers: the comparison stands inside the
\* try of the BOM analysis
Covers(block) == IF block = "bom_vlm" THEN {"bom_vlm", "compare"} ELSE {block}

\* the last step, from step i on, of the try block that step i stands in
RECURSIVE BlockEnd(_, _, _)
BlockEnd(steps, i, blocks) ==
    IF i + 1 <= Len(steps) /\ steps[i + 1].block \in blocks
    THEN BlockEnd(steps, i + 1, blocks)
    ELSE i

FileTypes == {"dxf", "pid", "pipe_bom", "pdf"}

SesStart == SesIdle

SesInit == SesStart /\ IdleBut("ses")

\* upload_file: the row is created with status 'processing' (create_session), the
\* background task is queued
UploadFile(s) ==
    /\ sessions[s].pc = "new"
    /\ \E kind \in FileTypes, has_valves, has_pieces \in BOOLEAN :
          /\ kind # "pdf" => (has_valves /\ has_pieces)
          /\ sessions' = [sessions EXCEPT ![s] =
                 [@ EXCEPT !.pc = "queued", !.kind = kind,
                           !.steps = StepsOf(kind, has_valves, has_pieces)]]
    /\ db_status' = [db_status EXCEPT ![s] = [status |-> "processing", msg_len |-> 0]]
    /\ UNCHANGED _symbol_ref_cache
    /\ UNCHANGED notSesVars

\* _process_file starts: session_dir.mkdir, before the try
MakeSessionDir(s) ==
    /\ sessions[s].pc = "queued"
    /\ sessions' = [sessions EXCEPT ![s] = [@ EXCEPT !.pc = "run"]]
    /\ UNCHANGED <<db_status, _symbol_ref_cache>>
    /\ UNCHANGED notSesVars

\* session_dir.mkdir raises: no except clause covers it, the task ends
MakeSessionDirRaises(s) ==
    /\ sessions[s].pc = "queued"
    /\ sessions' = [sessions EXCEPT ![s] = [@ EXCEPT !.pc = "crashed"]]
    /\ UNCHANGED <<db_status, _symbol_ref_cache>>
    /\ UNCHANGED notSesVars

CurrentStep(s) == sessions[s].steps[sessions[s].at]

\* the worker moved to step `to`, or past the last step
Advance(w, to) ==
    IF to > Len(w.steps) THEN [w EXCEPT !.pc = "done", !.at = to] ELSE [w EXCEPT !.at = to]

\* StatusAfter with 'vlm_analyzing' announced when the pages of a P&ID are
\* rendered, which a generic PDF with valves goes through as well
StatusAfter_AtRender(s, name) ==
    IF name \in {"status_vlm_analyzing", "render_pid_pages"}
    THEN [db_status EXCEPT ![s] = [status |-> "vlm_analyzing", msg_len |-> 0]]
    ELSE IF name = "status_completed"
    THEN [db_status EXCEPT ![s] = [status |-> "completed", msg_len |-> 0]]
    ELSE db_status

StatusAfter(s, name) ==
    IF name = "status_vlm_analyzing"
    THEN [db_status EXCEPT ![s] = [status |-> "vlm_analyzing", msg_len |-> 0]]
    ELSE IF name = "status_completed"
    THEN [db_status EXCEPT ![s] = [status |-> "completed", msg_len |-> 0]]
    ELSE db_status

\* the stages of a BOM session: text extraction, page rendering, VLM analysis,
\* reconciliation, the report of the VLM analysis
StageSteps ==
    {"extract_pipe_bom", "render_bom_pages", "process_bom_with_vlm", "compare_all_pages",
     "generate_vlm_bom_excel"}

\* the stages that have run to their end, in order (history)
StagesAfter(w, name) == IF name \in StageSteps THEN Append(w.stages, name) ELSE w.stages

WorkerAfter(w, name) ==
    Advance([w EXCEPT !.symbol_ref = IF name = "process_bom_with_vlm"
                                     THEN _symbol_ref_cache ELSE @,
                      !.stages = StagesAfter(w, name)],
            w.at + 1)

\* CompleteStep with the cache set as soon as the legend is read, before the
\* symbols are saved
CompleteStep_CacheBeforeSave(s, name) ==
    /\ db_status' = StatusAfter(s, name)
    /\ _symbol_ref_cache' = IF name = "extract_symbols_from_legend" THEN s
                            ELSE _symbol_ref_cache
    /\ sessions' = [sessions EXCEPT ![s] = WorkerAfter(@, name)]

CompleteStep(s, name) ==
    /\ db_status' = StatusAfter(s, name)
    /\ _symbol_ref_cache' = IF name = "cache_symbol_ref" THEN s ELSE _symbol_ref_cache
    /\ sessions' = [sessions EXCEPT ![s] = WorkerAfter(@, name)]

\* a step of the worker runs to its end
StepCompletes(s) ==
    /\ sessions[s].pc = "run"
    /\ CompleteStep(s, CurrentStep(s).name)
    /\ UNCHANGED notSesVars

\* the steps that write rows of the session to the database (db_service.py)
PersistenceWrites ==
    {"save_dimensions", "save_valves", "save_symbols", "save_pid_analysis", "save_pipe_bom",
     "save_vlm_bom"}

\* the worker with the failure of a write remembered (history)
Failed(w, step) == [w EXCEPT !.write_failed = @ \/ step.name \in PersistenceWrites]

RaiseIn(s, step) ==
    IF step.block = "outer"
    THEN \E len \in MessageLengths :
            sessions' = [sessions EXCEPT ![s] =
                [Failed(@, step) EXCEPT !.pc = "handler", !.exc_len = len]]
    ELSE sessions' = [sessions EXCEPT ![s] =
             Advance(Failed(@, step), BlockEnd(@.steps, @.at, Covers(step.block)) + 1)]

\* a step of the worker raises: an inner except clause logs it and the worker goes
\* on behind the inner try, the outer one takes it to the handler
StepRaises(s) ==
    /\ sessions[s].pc = "run"
    /\ RaiseIn(s, CurrentStep(s))
    /\ UNCHANGED <<db_status, _symbol_ref_cache>>
    /\ UNCHANGED notSesVars

\* the handler: update_session_status(session_id, f"error: {str(e)[:200]}")
HandleError(s) ==
    /\ sessions[s].pc = "handler"
    /\ db_status' = [db_status EXCEPT ![s] =
           [status |-> "error", msg_len |-> Truncated(sessions[s].exc_len)]]
    /\ sessions' = [sessions EXCEPT ![s] = [@ EXCEPT !.pc = "done"]]
    /\ UNCHANGED _symbol_ref_cache
    /\ UNCHANGED notSesVars

\* the status write of the handler raises: the task ends with the row as it was
HandleErrorRaises(s) ==
    /\ sessions[s].pc = "handler"
    /\ sessions' = [sessions EXCEPT ![s] = [@ EXCEPT !.pc = "crashed"]]
    /\ UNCHANGED <<db_status, _symbol_ref_cache>>
    /\ UNCHANGED notSesVars

SesNext ==
    \/ \E s \in SessionIds : UploadFile(s)
    \/ \E s \in SessionIds : MakeSessionDir(s)
    \/ \E s \in SessionIds : MakeSessionDirRaises(s)
    \/ \E s \in SessionIds : StepCompletes(s)
    \/ \E s \in SessionIds : StepRaises(s)
    \/ \E s \in SessionIds : HandleError(s)
    \/ \E s \in SessionIds : HandleErrorRaises(s)

SpecSession == SesInit /\ [][SesNext]_vars

\* ---------------------------------------------- properties of the sessions
Terminated(s) == sessions[s].pc \in {"done", "crashed"}

\* C1 as stated: when the background processing of a session has ended, its status
\* is 'completed' or an 'error:' text whose message has at most 200 characters,
\* never 'processing' or 'vlm_analyzing', whichever step raised.
C1_AsStated ==
    \A s \in SessionIds :
        Terminated(s) =>
            /\ db_status[s].status \in {"completed", "error"}
            /\ db_status[s].msg_len <= 200

\* C17: the failure of a write of a session's rows (valves, text BOM pages, symbols,
\* VLM BOM pages, P&ID analysis, dimensions) is fatal for the session: a session in
\* which one failed never ends with the status 'completed'
C17_AsStated ==
    \A s \in SessionIds :
        Terminated(s) /\ sessions[s].write_failed => db_status[s].status # "completed"

\* the worker of a session is at a step of this name
AtStep(s, name) == sessions[s].pc = "run" /\ CurrentStep(s).name = name

PlaceIn(seq, name) == FirstOf({i \in 1..Len(seq) : seq[i] = name})

\* stage `first` has run to its end before stage `then` has
Precedes(w, first, then) ==
    PlaceIn(w.stages, then) # 0 =>
        PlaceIn(w.stages, first) # 0 /\ PlaceIn(w.stages, first) < PlaceIn(w.stages, then)

StatusRank(status) ==
    IF status = "none" THEN 0
    ELSE IF status = "processing" THEN 1
    ELSE IF status = "vlm_analyzing" THEN 2
    ELSE 3

\* the writes of 'vlm_analyzing' the worker of a session has on its way
AnalyzingWrites(w) == {i \in 1..Len(w.steps) : w.steps[i].name = "status_vlm_analyzing"}

\* C24: the status of a session only moves forward along processing,
\* vlm_analyzing, completed or error: the row is created with 'processing' by the
\* upload, before the task is queued; every later write is made by the worker of
\* the session and moves the status strictly forward, so that a status
\* 'completed' or 'error' is never changed and the row never goes away;
\* 'vlm_analyzing' is written by one step that only pid and pipe_bom workers have,
\* and a worker never goes back to a step
C24_StatusForward ==
    [][\A s \in SessionIds :
          /\ db_status'[s] # db_status[s] =>
                 /\ StatusRank(db_status'[s].status) > StatusRank(db_status[s].status)
                 /\ IF db_status[s].status = "none"
                    THEN /\ db_status'[s].status = "processing"
                         /\ sessions[s].pc = "new"
                         /\ sessions'[s].pc = "queued"
                    ELSE sessions[s].pc \in {"run", "handler"}
                 /\ db_status'[s].status = "vlm_analyzing" =>
                        /\ sessions[s].kind \in {"pid", "pipe_bom"}
                        /\ AtStep(s, "status_vlm_analyzing")
          /\ sessions[s].pc # "new" => db_status[s].status # "none"
          /\ sessions'[s].at >= sessions[s].at
          /\ Cardinality(AnalyzingWrites(sessions'[s])) =
                 IF sessions'[s].kind \in {"pid", "pipe_bom"} THEN 1 ELSE 0]_vars

\* a pipe_bom session went through 'vlm_analyzing' and the VLM analysis and ended
\* 'completed', another one ended with an error, and both workers have ended
C24_Witness ==
    \E s, t \in SessionIds :
        /\ sessions[s].kind = "pipe_bom"
        /\ PlaceIn(sessions[s].stages, "process_bom_with_vlm") # 0
        /\ db_status[s].status = "completed"
        /\ db_status[t].status = "error"
        /\ Terminated(s) /\ Terminated(t)

====
